---- MODULE Spec2Model ----
(***************************************************************************)
(* Model of the supervisor of rtsp-simple-server (internal/core/core.go)   *)
(* and of the WebRTC front-end server (webrtc_server.go).                  *)
(*                                                                         *)
(* Part 1: Core: New, run, createResources, closeResources, reloadConf,    *)
(*         apiConfigSet, Close.                                            *)
(* Part 2: webRTCServer: run, newConn, connClose, apiConnsList,            *)
(*         apiConnsKick, close.                                            *)
(***************************************************************************)
EXTENDS Naturals, Integers, Sequences, FiniteSets, TLC

\* Budget of the reloads of one run: a reload costs one unit per configuration
\* field it changes other than Paths, and one unit when it changes none of
\* them.  Paths, the one field that is reloaded in place, may change in any
\* reload.
MaxChanges == 1

(***************************************************************************)
(* Configuration tree (conf.Conf), restricted to the fields core.go reads. *)
(***************************************************************************)
FlagFields ==
  {"Metrics", "PPROF", "RTSPDisable", "RTMPDisable", "HLSDisable",
   "WebRTCDisable", "API"}

EncFields == {"Encryption", "RTMPEncryption"}

ValueFields ==
  {"LogLevel", "LogDestinations", "LogFile",
   "MetricsAddress", "PPROFAddress",
   "RTSPAddress", "ReadTimeout", "WriteTimeout", "ReadBufferCount", "Paths",
   "ExternalAuthenticationURL", "AuthMethods", "Protocols",
   "RTPAddress", "RTCPAddress", "MulticastIPRange", "MulticastRTPPort",
   "MulticastRTCPPort", "RunOnConnect", "RunOnConnectRestart",
   "RTSPSAddress", "ServerCert", "ServerKey",
   "RTMPAddress", "RTMPSAddress", "RTMPServerCert", "RTMPServerKey",
   "HLSAddress", "HLSEncryption", "HLSServerKey", "HLSServerCert",
   "HLSAlwaysRemux", "HLSVariant", "HLSSegmentCount", "HLSSegmentDuration",
   "HLSPartDuration", "HLSSegmentMaxSize", "HLSAllowOrigin",
   "HLSTrustedProxies", "HLSDirectory",
   "WebRTCAddress", "WebRTCEncryption", "WebRTCServerKey", "WebRTCServerCert",
   "WebRTCAllowOrigin", "WebRTCTrustedProxies", "WebRTCICEServers",
   "WebRTCICEHostNAT1To1IPs", "WebRTCICEUDPMuxAddress",
   "WebRTCICETCPMuxAddress",
   "APIAddress"}

Fields == FlagFields \cup EncFields \cup ValueFields

\* conf.EncryptionNo, conf.EncryptionOptional, conf.EncryptionStrict
EncryptionValues == {"no", "optional", "strict"}

\* two abstract values per ordinary field: enough to make a field differ
Values == {0, 1}

Dom(f) ==
  IF f \in FlagFields THEN BOOLEAN
  ELSE IF f \in EncFields THEN EncryptionValues
  ELSE Values

\* every subsystem enabled, both plain and TLS listeners
FullConf ==
  [f \in Fields |->
     IF f \in {"Metrics", "PPROF", "API"} THEN TRUE
     ELSE IF f \in FlagFields THEN FALSE
     ELSE IF f \in EncFields THEN "optional"
     ELSE 0]

\* the defaults: no metrics, no pprof, no API, no encryption
DefaultConf ==
  [f \in Fields |->
     IF f \in FlagFields THEN FALSE
     ELSE IF f \in EncFields THEN "no"
     ELSE 0]

InitialConfs == {FullConf, DefaultConf}

\* the fields in which two trees differ
Diff(a, b) == {f \in Fields : a[f] # b[f]}

\* what a reload to the tree n costs when the current tree is c
Cost(c, n) ==
  IF Diff(c, n) \subseteq {"Paths"} THEN 1
  ELSE Cardinality(Diff(c, n) \ {"Paths"})

\* c with at most k of the fields other than Paths changed
RECURSIVE Changed(_, _)
Changed(c, k) ==
  IF k = 0 THEN {c}
  ELSE LET prev == Changed(c, k - 1)
       IN prev \cup
          UNION {UNION {{[n EXCEPT ![f] = v] : v \in Dom(f) \ {c[f]}}
                          : f \in {g \in Fields \ {"Paths"} : n[g] = c[g]}}
                   : n \in prev}

\* the trees a reload can bring in with a budget of k
NewConfs(c, k) ==
  LET base == Changed(c, k)
  IN base \cup {[n EXCEPT !["Paths"] = 1 - c["Paths"]] : n \in base}

(***************************************************************************)
(* Core's resources (the pointer fields of the Core struct).               *)
(***************************************************************************)
Servers ==
  {"rtspServer", "rtspsServer", "rtmpServer", "rtmpsServer", "hlsServer",
   "webRTCServer"}

Subsystems ==
  {"logger", "metrics", "pprof", "pathManager", "api"} \cup Servers

Resources == Subsystems \cup {"confWatcher"}

\* the configuration fields createResources passes to each constructor
Inputs(s) ==
  CASE s = "logger" -> {"LogLevel", "LogDestinations", "LogFile"}
    [] s = "metrics" -> {"MetricsAddress"}
    [] s = "pprof" -> {"PPROFAddress"}
    [] s = "pathManager" ->
         {"RTSPAddress", "ReadTimeout", "WriteTimeout", "ReadBufferCount",
          "Paths"}
    [] s = "rtspServer" ->
         {"ExternalAuthenticationURL", "RTSPAddress", "AuthMethods",
          "ReadTimeout", "WriteTimeout", "ReadBufferCount", "Protocols",
          "RTPAddress", "RTCPAddress", "MulticastIPRange",
          "MulticastRTPPort", "MulticastRTCPPort", "RunOnConnect",
          "RunOnConnectRestart"}
    [] s = "rtspsServer" ->
         {"ExternalAuthenticationURL", "RTSPSAddress", "AuthMethods",
          "ReadTimeout", "WriteTimeout", "ReadBufferCount", "ServerCert",
          "ServerKey", "RTSPAddress", "Protocols", "RunOnConnect",
          "RunOnConnectRestart"}
    [] s = "rtmpServer" ->
         {"ExternalAuthenticationURL", "RTMPAddress", "ReadTimeout",
          "WriteTimeout", "ReadBufferCount", "RTSPAddress", "RunOnConnect",
          "RunOnConnectRestart"}
    [] s = "rtmpsServer" ->
         {"ExternalAuthenticationURL", "RTMPSAddress", "ReadTimeout",
          "WriteTimeout", "ReadBufferCount", "RTMPServerCert",
          "RTMPServerKey", "RTSPAddress", "RunOnConnect",
          "RunOnConnectRestart"}
    [] s = "hlsServer" ->
         {"HLSAddress", "HLSEncryption", "HLSServerKey", "HLSServerCert",
          "ExternalAuthenticationURL", "HLSAlwaysRemux", "HLSVariant",
          "HLSSegmentCount", "HLSSegmentDuration", "HLSPartDuration",
          "HLSSegmentMaxSize", "HLSAllowOrigin", "HLSTrustedProxies",
          "HLSDirectory", "ReadBufferCount"}
    [] s = "webRTCServer" ->
         {"ExternalAuthenticationURL", "WebRTCAddress", "WebRTCEncryption",
          "WebRTCServerKey", "WebRTCServerCert", "WebRTCAllowOrigin",
          "WebRTCTrustedProxies", "WebRTCICEServers", "ReadBufferCount",
          "WebRTCICEHostNAT1To1IPs", "WebRTCICEUDPMuxAddress",
          "WebRTCICETCPMuxAddress"}
    [] s = "api" -> {"APIAddress"}
    [] OTHER -> {}

\* the other resources whose pointer createResources passes to each constructor
Deps(s) ==
  CASE s = "pathManager" -> {"metrics"}
    [] s \in Servers -> {"metrics", "pathManager"}
    [] s = "api" -> {"pathManager"} \cup Servers
    [] OTHER -> {}

\* the condition under which createResources wants the resource to exist
Wanted(s, c, initial, found) ==
  CASE s = "logger" -> TRUE
    [] s = "metrics" -> c["Metrics"]
    [] s = "pprof" -> c["PPROF"]
    [] s = "pathManager" -> TRUE
    [] s = "rtspServer" ->
         ~c["RTSPDisable"] /\ c["Encryption"] \in {"no", "optional"}
    [] s = "rtspsServer" ->
         ~c["RTSPDisable"] /\ c["Encryption"] \in {"strict", "optional"}
    [] s = "rtmpServer" ->
         ~c["RTMPDisable"] /\ c["RTMPEncryption"] \in {"no", "optional"}
    [] s = "rtmpsServer" ->
         ~c["RTMPDisable"] /\ c["RTMPEncryption"] \in {"strict", "optional"}
    [] s = "hlsServer" -> ~c["HLSDisable"]
    [] s = "webRTCServer" -> ~c["WebRTCDisable"]
    [] s = "api" -> c["API"]
    [] s = "confWatcher" -> initial /\ found

\* a nil pointer
Nil == [id |-> 0, args |-> << >>, deps |-> << >>]

\* a constructed instance: its identity, the values and the pointers it got
Instance(s, n, c, ids) ==
  [id |-> n,
   args |-> [f \in Inputs(s) |-> c[f]],
   deps |-> [d \in Deps(s) |-> ids[d]]]

(***************************************************************************)
(* closeResources: the restart predicates.  isNil stands for               *)
(* newConf == nil (final teardown); n is newConf, c is p.conf.             *)
(***************************************************************************)
closeLogger(isNil, n, c) ==
  \/ isNil
  \/ n["LogDestinations"] # c["LogDestinations"]
  \/ n["LogFile"] # c["LogFile"]

closeMetrics(isNil, n, c) ==
  \/ isNil
  \/ n["Metrics"] # c["Metrics"]
  \/ n["MetricsAddress"] # c["MetricsAddress"]

closePPROFAddressOnly(isNil, n, c) ==
  \/ isNil
  \/ n["PPROFAddress"] # c["PPROFAddress"]

closePPROF(isNil, n, c) ==
  \/ isNil
  \/ n["PPROF"] # c["PPROF"]
  \/ n["PPROFAddress"] # c["PPROFAddress"]

closePathManagerNoMetrics(isNil, n, c) ==
  \/ isNil
  \/ n["RTSPAddress"] # c["RTSPAddress"]
  \/ n["ReadTimeout"] # c["ReadTimeout"]
  \/ n["WriteTimeout"] # c["WriteTimeout"]
  \/ n["ReadBufferCount"] # c["ReadBufferCount"]

closePathManager(isNil, n, c) ==
  \/ isNil
  \/ n["RTSPAddress"] # c["RTSPAddress"]
  \/ n["ReadTimeout"] # c["ReadTimeout"]
  \/ n["WriteTimeout"] # c["WriteTimeout"]
  \/ n["ReadBufferCount"] # c["ReadBufferCount"]
  \/ closeMetrics(isNil, n, c)

closeRTSPServer(isNil, n, c) ==
  \/ isNil
  \/ n["RTSPDisable"] # c["RTSPDisable"]
  \/ n["Encryption"] # c["Encryption"]
  \/ n["ExternalAuthenticationURL"] # c["ExternalAuthenticationURL"]
  \/ n["RTSPAddress"] # c["RTSPAddress"]
  \/ n["AuthMethods"] # c["AuthMethods"]
  \/ n["ReadTimeout"] # c["ReadTimeout"]
  \/ n["WriteTimeout"] # c["WriteTimeout"]
  \/ n["ReadBufferCount"] # c["ReadBufferCount"]
  \/ n["Protocols"] # c["Protocols"]
  \/ n["RTPAddress"] # c["RTPAddress"]
  \/ n["RTCPAddress"] # c["RTCPAddress"]
  \/ n["MulticastIPRange"] # c["MulticastIPRange"]
  \/ n["MulticastRTPPort"] # c["MulticastRTPPort"]
  \/ n["MulticastRTCPPort"] # c["MulticastRTCPPort"]
  \/ n["RTSPAddress"] # c["RTSPAddress"]
  \/ n["Protocols"] # c["Protocols"]
  \/ n["RunOnConnect"] # c["RunOnConnect"]
  \/ n["RunOnConnectRestart"] # c["RunOnConnectRestart"]
  \/ closeMetrics(isNil, n, c)
  \/ closePathManager(isNil, n, c)

closeRTSPSServer(isNil, n, c) ==
  \/ isNil
  \/ n["RTSPDisable"] # c["RTSPDisable"]
  \/ n["Encryption"] # c["Encryption"]
  \/ n["ExternalAuthenticationURL"] # c["ExternalAuthenticationURL"]
  \/ n["RTSPSAddress"] # c["RTSPSAddress"]
  \/ n["AuthMethods"] # c["AuthMethods"]
  \/ n["ReadTimeout"] # c["ReadTimeout"]
  \/ n["WriteTimeout"] # c["WriteTimeout"]
  \/ n["ReadBufferCount"] # c["ReadBufferCount"]
  \/ n["ServerCert"] # c["ServerCert"]
  \/ n["ServerKey"] # c["ServerKey"]
  \/ n["RTSPAddress"] # c["RTSPAddress"]
  \/ n["Protocols"] # c["Protocols"]
  \/ n["RunOnConnect"] # c["RunOnConnect"]
  \/ n["RunOnConnectRestart"] # c["RunOnConnectRestart"]
  \/ closeMetrics(isNil, n, c)
  \/ closePathManager(isNil, n, c)

closeRTMPServer(isNil, n, c) ==
  \/ isNil
  \/ n["RTMPDisable"] # c["RTMPDisable"]
  \/ n["RTMPEncryption"] # c["RTMPEncryption"]
  \/ n["RTMPAddress"] # c["RTMPAddress"]
  \/ n["ExternalAuthenticationURL"] # c["ExternalAuthenticationURL"]
  \/ n["ReadTimeout"] # c["ReadTimeout"]
  \/ n["WriteTimeout"] # c["WriteTimeout"]
  \/ n["ReadBufferCount"] # c["ReadBufferCount"]
  \/ n["RTSPAddress"] # c["RTSPAddress"]
  \/ n["RunOnConnect"] # c["RunOnConnect"]
  \/ n["RunOnConnectRestart"] # c["RunOnConnectRestart"]
  \/ closeMetrics(isNil, n, c)
  \/ closePathManager(isNil, n, c)

closeRTMPSServer(isNil, n, c) ==
  \/ isNil
  \/ n["RTMPDisable"] # c["RTMPDisable"]
  \/ n["RTMPEncryption"] # c["RTMPEncryption"]
  \/ n["RTMPSAddress"] # c["RTMPSAddress"]
  \/ n["ExternalAuthenticationURL"] # c["ExternalAuthenticationURL"]
  \/ n["ReadTimeout"] # c["ReadTimeout"]
  \/ n["WriteTimeout"] # c["WriteTimeout"]
  \/ n["ReadBufferCount"] # c["ReadBufferCount"]
  \/ n["RTMPServerCert"] # c["RTMPServerCert"]
  \/ n["RTMPServerKey"] # c["RTMPServerKey"]
  \/ n["RTSPAddress"] # c["RTSPAddress"]
  \/ n["RunOnConnect"] # c["RunOnConnect"]
  \/ n["RunOnConnectRestart"] # c["RunOnConnectRestart"]
  \/ closeMetrics(isNil, n, c)
  \/ closePathManager(isNil, n, c)

closeHLSServerNoPathManager(isNil, n, c) ==
  \/ isNil
  \/ n["HLSDisable"] # c["HLSDisable"]
  \/ n["HLSAddress"] # c["HLSAddress"]
  \/ n["HLSEncryption"] # c["HLSEncryption"]
  \/ n["HLSServerKey"] # c["HLSServerKey"]
  \/ n["HLSServerCert"] # c["HLSServerCert"]
  \/ n["ExternalAuthenticationURL"] # c["ExternalAuthenticationURL"]
  \/ n["HLSAlwaysRemux"] # c["HLSAlwaysRemux"]
  \/ n["HLSVariant"] # c["HLSVariant"]
  \/ n["HLSSegmentCount"] # c["HLSSegmentCount"]
  \/ n["HLSSegmentDuration"] # c["HLSSegmentDuration"]
  \/ n["HLSPartDuration"] # c["HLSPartDuration"]
  \/ n["HLSSegmentMaxSize"] # c["HLSSegmentMaxSize"]
  \/ n["HLSAllowOrigin"] # c["HLSAllowOrigin"]
  \/ n["HLSTrustedProxies"] # c["HLSTrustedProxies"]
  \/ n["HLSDirectory"] # c["HLSDirectory"]
  \/ n["ReadBufferCount"] # c["ReadBufferCount"]
  \/ closeMetrics(isNil, n, c)

closeHLSServer(isNil, n, c) ==
  \/ isNil
  \/ n["HLSDisable"] # c["HLSDisable"]
  \/ n["HLSAddress"] # c["HLSAddress"]
  \/ n["HLSEncryption"] # c["HLSEncryption"]
  \/ n["HLSServerKey"] # c["HLSServerKey"]
  \/ n["HLSServerCert"] # c["HLSServerCert"]
  \/ n["ExternalAuthenticationURL"] # c["ExternalAuthenticationURL"]
  \/ n["HLSAlwaysRemux"] # c["HLSAlwaysRemux"]
  \/ n["HLSVariant"] # c["HLSVariant"]
  \/ n["HLSSegmentCount"] # c["HLSSegmentCount"]
  \/ n["HLSSegmentDuration"] # c["HLSSegmentDuration"]
  \/ n["HLSPartDuration"] # c["HLSPartDuration"]
  \/ n["HLSSegmentMaxSize"] # c["HLSSegmentMaxSize"]
  \/ n["HLSAllowOrigin"] # c["HLSAllowOrigin"]
  \/ n["HLSTrustedProxies"] # c["HLSTrustedProxies"]
  \/ n["HLSDirectory"] # c["HLSDirectory"]
  \/ n["ReadBufferCount"] # c["ReadBufferCount"]
  \/ closePathManager(isNil, n, c)
  \/ closeMetrics(isNil, n, c)

closeWebRTCServer(isNil, n, c) ==
  \/ isNil
  \/ n["WebRTCDisable"] # c["WebRTCDisable"]
  \/ n["ExternalAuthenticationURL"] # c["ExternalAuthenticationURL"]
  \/ n["WebRTCAddress"] # c["WebRTCAddress"]
  \/ n["WebRTCEncryption"] # c["WebRTCEncryption"]
  \/ n["WebRTCServerKey"] # c["WebRTCServerKey"]
  \/ n["WebRTCServerCert"] # c["WebRTCServerCert"]
  \/ n["WebRTCAllowOrigin"] # c["WebRTCAllowOrigin"]
  \/ n["WebRTCTrustedProxies"] # c["WebRTCTrustedProxies"]
  \/ n["WebRTCICEServers"] # c["WebRTCICEServers"]
  \/ n["ReadBufferCount"] # c["ReadBufferCount"]
  \/ closeMetrics(isNil, n, c)
  \/ closePathManager(isNil, n, c)
  \/ n["WebRTCICEHostNAT1To1IPs"] # c["WebRTCICEHostNAT1To1IPs"]
  \/ n["WebRTCICEUDPMuxAddress"] # c["WebRTCICEUDPMuxAddress"]
  \/ n["WebRTCICETCPMuxAddress"] # c["WebRTCICETCPMuxAddress"]

closeAPI(isNil, n, c) ==
  \/ isNil
  \/ n["API"] # c["API"]
  \/ n["APIAddress"] # c["APIAddress"]
  \/ closePathManager(isNil, n, c)
  \/ closeRTSPServer(isNil, n, c)
  \/ closeRTSPSServer(isNil, n, c)
  \/ closeRTMPServer(isNil, n, c)
  \/ closeHLSServer(isNil, n, c)
  \/ closeWebRTCServer(isNil, n, c)

\* the restart predicate of each subsystem
MustClose(s, isNil, n, c) ==
  CASE s = "logger" -> closeLogger(isNil, n, c)
    [] s = "metrics" -> closeMetrics(isNil, n, c)
    [] s = "pprof" -> closePPROF(isNil, n, c)
    [] s = "pathManager" -> closePathManager(isNil, n, c)
    [] s = "rtspServer" -> closeRTSPServer(isNil, n, c)
    [] s = "rtspsServer" -> closeRTSPSServer(isNil, n, c)
    [] s = "rtmpServer" -> closeRTMPServer(isNil, n, c)
    [] s = "rtmpsServer" -> closeRTMPSServer(isNil, n, c)
    [] s = "hlsServer" -> closeHLSServer(isNil, n, c)
    [] s = "webRTCServer" -> closeWebRTCServer(isNil, n, c)
    [] s = "api" -> closeAPI(isNil, n, c)
    [] s = "confWatcher" -> isNil

(***************************************************************************)
(* closeResources: the teardown, in the order of the statements.           *)
(***************************************************************************)
CloseSequence ==
  <<"confWatcher", "api", "rtspsServer", "rtspServer", "pathManager",
    "webRTCServer", "hlsServer", "rtmpsServer", "rtmpServer", "pprof",
    "metrics", "logger">>

\* if closeX && p.x != nil { p.x.close(); p.x = nil }
ClosesUnchanged(r, must, s) == r[s].id # 0 /\ (must[s] \/ s = "hlsServer")

Closes(r, must, s) == must[s] /\ r[s].id # 0

\* if !closePathManager && !reflect.DeepEqual(newConf.Paths, p.conf.Paths)
\*   { p.pathManager.confReload(newConf.Paths) }
PathsReloadAlways(must, n, c) == n["Paths"] # c["Paths"]

PathsReload(must, n, c) == ~must["pathManager"] /\ n["Paths"] # c["Paths"]

\* if p.api != nil { if closeAPI {...} else if !calledByAPI
\*   { p.api.confReload(newConf) } }
APIReloadAlways(r, must, calledByAPI) == r["api"].id # 0 /\ ~must["api"]

APIReload(r, must, calledByAPI) ==
  r["api"].id # 0 /\ ~must["api"] /\ ~calledByAPI

\* r: the resources, pool: externalCmdPool, isNil: newConf == nil,
\* n: newConf, c: p.conf.  A dereference of a nil logger or path manager
\* is reported in panic.
closeResources(r, pool, isNil, n, c, calledByAPI) ==
  LET must == [s \in Resources |-> MustClose(s, isNil, n, c)]
      pmReload == PathsReload(must, n, c)
      apiReload == APIReload(r, must, calledByAPI)
  IN [res |->
        [s \in Resources |->
           IF Closes(r, must, s) \/ (s = "logger" /\ must["logger"]) THEN Nil
           ELSE IF s = "pathManager" /\ pmReload /\ r[s].id # 0
             THEN [id |-> r[s].id,
                   args |-> [f \in Inputs(s) |->
                               IF f = "Paths" THEN n["Paths"]
                               ELSE r[s].args[f]],
                   deps |-> r[s].deps]
           ELSE r[s]],
      order |-> SelectSeq(CloseSequence, LAMBDA s : Closes(r, must, s)),
      pmReload |-> pmReload,
      apiReload |-> apiReload,
      pool |-> IF isNil /\ pool = "open" THEN "closed" ELSE pool,
      panic |->
        \/ pmReload /\ r["pathManager"].id = 0
        \/ Closes(r, must, "webRTCServer") /\ r["logger"].id = 0
        \/ isNil /\ pool # "nil" /\ r["logger"].id = 0
        \/ must["logger"] /\ r["logger"].id = 0]

(***************************************************************************)
(* createResources: the constructors, in the order of the statements.      *)
(***************************************************************************)
CreateSequenceAPIFirst ==
  <<"logger", "metrics", "pprof", "pathManager", "api", "rtspServer",
    "rtspsServer", "rtmpServer", "rtmpsServer", "hlsServer", "webRTCServer",
    "confWatcher">>

CreateSequence ==
  <<"logger", "metrics", "pprof", "pathManager", "rtspServer", "rtspsServer",
    "rtmpServer", "rtmpsServer", "hlsServer", "webRTCServer", "api",
    "confWatcher">>

\* newPathManager returns no error; every other constructor can fail
Failable == Resources \ {"pathManager"}

\* position of s in the sequence q, 0 when absent
Pos(q, s) ==
  IF \E i \in 1..Len(q) : q[i] = s
  THEN CHOOSE i \in 1..Len(q) : q[i] = s
  ELSE 0

\* the constructors a createResources call invokes when none of them fails
ToCreate(r, c, initial, found) ==
  SelectSeq(CreateSequence,
            LAMBDA s : Wanted(s, c, initial, found) /\ r[s].id = 0)

\* r: the resources, c: p.conf, failAt: the constructor that fails (or "none"),
\* nid: the identity of the next instance.  Constructors run in the order of
\* the statements, each with the pointers Core holds at that moment; the
\* first failure returns.
createResources(r, pool, c, initial, found, failAt, nid) ==
  LET want == ToCreate(r, c, initial, found)
      stop == Pos(want, failAt)
      made == IF stop = 0 THEN want ELSE SubSeq(want, 1, stop - 1)
      at == [s \in Resources |-> Pos(made, s)]
      idsAt(k) ==
        [d \in Resources |->
           IF at[d] > 0 /\ at[d] < k THEN nid + at[d] - 1 ELSE r[d].id]
  IN [res |->
        [s \in Resources |->
           IF at[s] > 0
           THEN Instance(s, nid + at[s] - 1, c, idsAt(at[s]))
           ELSE r[s]],
      order |-> made,
      err |-> stop # 0,
      next |-> nid + Len(made),
      pool |-> IF initial /\ (r["logger"].id # 0 \/ at["logger"] > 0)
               THEN "open" ELSE pool]

(***************************************************************************)
(* reloadConf                                                              *)
(***************************************************************************)
reloadConf(r, pool, c, n, calledByAPI, found, failAt, nid) ==
  LET cl == closeResources(r, pool, FALSE, n, c, calledByAPI)
      cr == createResources(cl.res, cl.pool, n, FALSE, found, failAt, nid)
  IN [conf |-> n,
      res |-> cr.res,
      pool |-> cr.pool,
      next |-> cr.next,
      closed |-> cl.order,
      created |-> cr.order,
      pmReload |-> cl.pmReload,
      apiReload |-> cl.apiReload,
      err |-> cr.err,
      panic |-> cl.panic]

(***************************************************************************)
(* State of Core and of the goroutines that call into it.                  *)
(***************************************************************************)
VARIABLES
  conf,             \* p.conf
  confFound,        \* p.confFound
  res,              \* the resource pointers of Core, by field name
  externalCmdPool,  \* p.externalCmdPool: "nil", "open", "closed"
  ctxDone,          \* p.ctx is cancelled
  done,             \* p.done is closed
  pc,               \* position of New / Core.run
  nextId,           \* identity of the next constructed instance
  apiCaller,        \* the API goroutine that calls Core.apiConfigSet
  closer,           \* the goroutine that calls Core.Close
  changes,          \* number of fields changed by reloads so far
  last              \* what the last New / reload / teardown did

coreVars ==
  <<conf, confFound, res, externalCmdPool, ctxDone, done, pc, nextId,
    apiCaller, closer, changes, last>>

\* Number of HTTP requests that reach webRTCServer.newConn in one run; each
\* gets its own connection, whose UUID is the number of the request.
MaxConns == 2

Handlers == 1..MaxConns

\* the UUIDs an API client can ask to kick: those of the connections and one
\* that belongs to no connection
KickIds == {0} \cup Handlers

VARIABLES
  wpc,        \* position of webRTCServer.run
  wctxDone,   \* s.ctx is cancelled
  wdone,      \* s.done is closed
  ln,         \* s.ln: "open" or "closed"
  udpMuxLn,   \* s.udpMuxLn: "nil", "open" or "closed"
  tcpMuxLn,   \* s.tcpMuxLn: "nil", "open" or "closed"
  conns,      \* s.conns
  reply,      \* the reply the loop is about to send on req.res
  conn,       \* the connection actors, by UUID
  kicked,     \* the connections on which close() was called by a kick
  handler,    \* the goroutines in onRequest that call newConn
  caller,     \* the API goroutine that calls apiConnsList / apiConnsKick
  wcloser     \* the goroutine that calls webRTCServer.close

wVars ==
  <<wpc, wctxDone, wdone, ln, udpMuxLn, tcpMuxLn, conns, reply, conn, kicked,
    handler, caller, wcloser>>

(***************************************************************************)
(* State of one HTTP request served by webRTCServer.onRequest.             *)
(***************************************************************************)
VARIABLES
  rpc,   \* position of onRequest: "off", "request", "responded"
  req,   \* the request and what the calls made for it return
  resp   \* what onRequest did: status, headers, log line, calls

reqVars == <<rpc, req, resp>>

\* State of one call of conf.Load.
VARIABLES
  lpc,      \* position of the caller of conf.Load
  file,     \* the file at the path given to conf.Load
  env,      \* the environment of the process
  loaded    \* what conf.Load returned

loadVars == <<lpc, file, env, loaded>>

\* State of one call of newWebRTCServer.
VARIABLES
  nwpc,     \* position of the caller: "off", "call", "returned"
  nwArgs,   \* the arguments and what the calls made for them return
  nwRes     \* what newWebRTCServer returned and the listeners it left

ctorVars == <<nwpc, nwArgs, nwRes>>

\* the identities of the instances the pointers of r refer to
Ids(r) == [s \in Resources |-> r[s].id]

NoOp ==
  [op |-> "none", byAPI |-> FALSE,
   oldConf |-> DefaultConf, before |-> [s \in Resources |-> 0],
   closed |-> << >>, created |-> << >>, pmReload |-> FALSE,
   apiReload |-> FALSE, err |-> FALSE]

\* an API goroutine outside of Core.apiConfigSet; taken: its last call handed
\* its tree (conf) to the run loop
NoAPICall == [pc |-> "idle", conf |-> DefaultConf, taken |-> FALSE]

CoreInit ==
  /\ conf \in InitialConfs
  /\ confFound \in BOOLEAN
  /\ res = [s \in Resources |-> Nil]
  /\ externalCmdPool = "nil"
  /\ ctxDone = FALSE
  /\ done = FALSE
  /\ pc = "new"
  /\ nextId = 1
  /\ apiCaller = NoAPICall
  /\ closer = "idle"
  /\ changes = 0
  /\ last = NoOp

\* the constructors that can fail in a createResources call, or none of them
FailChoices(r, c, initial, found) ==
  {"none"} \cup
  {s \in Failable : Wanted(s, c, initial, found) /\ r[s].id = 0}

\* the same for the createResources call of reloadConf(n)
ReloadFailChoices(r, c, n, found) ==
  FailChoices([s \in Resources |->
                 IF MustClose(s, FALSE, n, c) THEN Nil ELSE r[s]],
              n, FALSE, found)

\* New: conf.Load, createResources(true); on error closeResources(nil, false)
New ==
  /\ pc = "new"
  /\ \E loadErr \in BOOLEAN,
        failAt \in FailChoices(res, conf, TRUE, confFound) :
       IF loadErr
       THEN /\ failAt = "none"
            /\ pc' = "failed"
            /\ UNCHANGED <<res, externalCmdPool, nextId, last>>
       ELSE LET cr == createResources(res, externalCmdPool, conf, TRUE,
                                      confFound, failAt, nextId)
                cl == closeResources(cr.res, cr.pool, TRUE, conf, conf, FALSE)
            IN IF cr.err
               THEN /\ res' = cl.res
                    /\ externalCmdPool' = cl.pool
                    /\ nextId' = cr.next
                    /\ pc' = IF cl.panic THEN "panic" ELSE "failed"
                    /\ last' = [NoOp EXCEPT !.op = "new",
                                  !.oldConf = conf, !.before = Ids(cr.res),
                                  !.closed = cl.order, !.created = cr.order,
                                  !.err = TRUE]
               ELSE /\ res' = cr.res
                    /\ externalCmdPool' = cr.pool
                    /\ nextId' = cr.next
                    /\ pc' = "select"
                    /\ last' = [NoOp EXCEPT !.op = "new",
                                  !.oldConf = conf, !.before = Ids(res),
                                  !.created = cr.order]
  /\ UNCHANGED <<conf, confFound, ctxDone, done, apiCaller, closer, changes>>
  /\ UNCHANGED <<wVars, reqVars, loadVars, ctorVars>>

\* the part of Core.run that follows a reloadConf call: on error p.Log,
\* break outer and p.ctxCancel()
AfterReloadKeepsServing(rl, byAPI) ==
  /\ conf' = rl.conf
  /\ res' = rl.res
  /\ externalCmdPool' = rl.pool
  /\ nextId' = rl.next
  /\ last' = [op |-> "reload", byAPI |-> byAPI,
              oldConf |-> conf, before |-> Ids(res), closed |-> rl.closed,
              created |-> rl.created, pmReload |-> rl.pmReload,
              apiReload |-> rl.apiReload, err |-> rl.err]
  /\ pc' = IF rl.panic THEN "panic" ELSE "select"
  /\ ctxDone' = ctxDone

AfterReload(rl, byAPI) ==
  /\ conf' = rl.conf
  /\ res' = rl.res
  /\ externalCmdPool' = rl.pool
  /\ nextId' = rl.next
  /\ last' = [op |-> "reload", byAPI |-> byAPI,
              oldConf |-> conf, before |-> Ids(res), closed |-> rl.closed,
              created |-> rl.created, pmReload |-> rl.pmReload,
              apiReload |-> rl.apiReload, err |-> rl.err]
  /\ pc' = IF rl.panic \/ (rl.err /\ rl.res["logger"].id = 0) THEN "panic"
           ELSE IF rl.err THEN "closing"
           ELSE "select"
  /\ ctxDone' = IF pc' = "closing" THEN TRUE ELSE ctxDone

\* case <-confChanged
ConfChangedNoWatcher ==
  /\ pc = "select"
  /\ \E loadErr \in BOOLEAN :
       IF loadErr
       THEN /\ pc' = IF res["logger"].id = 0 THEN "panic" ELSE "closing"
            /\ ctxDone' = IF pc' = "closing" THEN TRUE ELSE ctxDone
            /\ UNCHANGED <<conf, res, externalCmdPool, nextId, changes, last>>
       ELSE /\ changes < MaxChanges
            /\ \E n \in NewConfs(conf, MaxChanges - changes) :
               \E failAt \in ReloadFailChoices(res, conf, n, confFound) :
                 /\ changes' = changes + Cost(conf, n)
                 /\ AfterReload(reloadConf(res, externalCmdPool, conf, n,
                                           FALSE, confFound, failAt, nextId),
                                FALSE)
  /\ UNCHANGED <<confFound, done, apiCaller, closer>>
  /\ UNCHANGED <<wVars, reqVars, loadVars, ctorVars>>

ConfChanged ==
  /\ pc = "select"
  /\ res["confWatcher"].id # 0
  /\ \E loadErr \in BOOLEAN :
       IF loadErr
       THEN /\ pc' = IF res["logger"].id = 0 THEN "panic" ELSE "closing"
            /\ ctxDone' = IF pc' = "closing" THEN TRUE ELSE ctxDone
            /\ UNCHANGED <<conf, res, externalCmdPool, nextId, changes, last>>
       ELSE /\ changes < MaxChanges
            /\ \E n \in NewConfs(conf, MaxChanges - changes) :
               \E failAt \in ReloadFailChoices(res, conf, n, confFound) :
                 /\ changes' = changes + Cost(conf, n)
                 /\ AfterReload(reloadConf(res, externalCmdPool, conf, n,
                                           FALSE, confFound, failAt, nextId),
                                FALSE)
  /\ UNCHANGED <<confFound, done, apiCaller, closer>>
  /\ UNCHANGED <<wVars, reqVars, loadVars, ctorVars>>

\* an API handler builds a new tree and enters Core.apiConfigSet
APICall ==
  /\ pc \in {"select", "closing"}
  /\ res["api"].id # 0
  /\ apiCaller.pc = "idle"
  /\ changes < MaxChanges
  /\ \E n \in NewConfs(conf, MaxChanges - changes) :
       /\ apiCaller' = [pc |-> "calling", conf |-> n, taken |-> FALSE]
       /\ changes' = changes + Cost(conf, n)
  /\ UNCHANGED <<conf, confFound, res, externalCmdPool, ctxDone, done, pc,
                 nextId, closer, last>>
  /\ UNCHANGED <<wVars, reqVars, loadVars, ctorVars>>

\* case newConf := <-p.chAPIConfigSet, together with the send in apiConfigSet
APIConfigSet ==
  /\ pc = "select"
  /\ apiCaller.pc = "calling"
  /\ \E failAt \in ReloadFailChoices(res, conf, apiCaller.conf, confFound) :
       AfterReload(reloadConf(res, externalCmdPool, conf, apiCaller.conf, TRUE,
                              confFound, failAt, nextId), TRUE)
  /\ apiCaller' = [apiCaller EXCEPT !.pc = "idle", !.taken = TRUE]
  /\ UNCHANGED <<confFound, done, closer, changes>>
  /\ UNCHANGED <<wVars, reqVars, loadVars, ctorVars>>

\* Core.apiConfigSet: case <-p.ctx.Done()
APIConfigSetCancelled ==
  /\ pc # "panic"
  /\ apiCaller.pc = "calling"
  /\ ctxDone
  /\ apiCaller' = NoAPICall
  /\ UNCHANGED <<conf, confFound, res, externalCmdPool, ctxDone, done, pc,
                 nextId, closer, changes, last>>
  /\ UNCHANGED <<wVars, reqVars, loadVars, ctorVars>>

\* case <-interrupt: p.Log, break outer and p.ctxCancel()
Interrupt ==
  /\ pc = "select"
  /\ pc' = IF res["logger"].id = 0 THEN "panic" ELSE "closing"
  /\ ctxDone' = IF pc' = "closing" THEN TRUE ELSE ctxDone
  /\ UNCHANGED <<conf, confFound, res, externalCmdPool, done, nextId,
                 apiCaller, closer, changes, last>>
  /\ UNCHANGED <<wVars, reqVars, loadVars, ctorVars>>

\* case <-p.ctx.Done(): break outer and p.ctxCancel()
CtxDone ==
  /\ pc = "select"
  /\ ctxDone
  /\ pc' = "closing"
  /\ UNCHANGED <<conf, confFound, res, externalCmdPool, ctxDone, done, nextId,
                 apiCaller, closer, changes, last>>
  /\ UNCHANGED <<wVars, reqVars, loadVars, ctorVars>>

\* Core.run after the loop: p.closeResources(nil, false), then close(p.done)
RunClose ==
  /\ pc = "closing"
  /\ LET cl == closeResources(res, externalCmdPool, TRUE, conf, conf, FALSE)
     IN /\ res' = cl.res
        /\ externalCmdPool' = cl.pool
        /\ pc' = IF cl.panic THEN "panic" ELSE "done"
        /\ done' = ~cl.panic
        /\ last' = [NoOp EXCEPT !.op = "teardown",
                      !.oldConf = conf, !.before = Ids(res),
                      !.closed = cl.order]
  /\ UNCHANGED <<conf, confFound, ctxDone, nextId, apiCaller, closer, changes>>
  /\ UNCHANGED <<wVars, reqVars, loadVars, ctorVars>>

\* Core.Close: p.ctxCancel(); a goroutine may call Close again after a call
\* returned
CloseCall ==
  /\ pc \in {"select", "closing", "done"}
  /\ closer \in {"idle", "returned"}
  /\ closer' = "waiting"
  /\ ctxDone' = TRUE
  /\ UNCHANGED <<conf, confFound, res, externalCmdPool, done, pc, nextId,
                 apiCaller, changes, last>>
  /\ UNCHANGED <<wVars, reqVars, loadVars, ctorVars>>

\* Core.Close: <-p.done
CloseReturn ==
  /\ pc # "panic"
  /\ closer = "waiting"
  /\ done
  /\ closer' = "returned"
  /\ UNCHANGED <<conf, confFound, res, externalCmdPool, ctxDone, done, pc,
                 nextId, apiCaller, changes, last>>
  /\ UNCHANGED <<wVars, reqVars, loadVars, ctorVars>>

CoreNext ==
  \/ New
  \/ ConfChanged
  \/ APICall
  \/ APIConfigSet
  \/ APIConfigSetCancelled
  \/ Interrupt
  \/ CtxDone
  \/ RunClose
  \/ CloseCall
  \/ CloseReturn

(***************************************************************************)
(* Part 2: webRTCServer.                                                   *)
(***************************************************************************)
NoReply == [kind |-> "none", to |-> 0, err |-> "nil", val |-> {}]

\* an API goroutine outside of any call; late: s.ctx was cancelled when the
\* call was made
NoCall == [pc |-> "idle", op |-> "none", id |-> 0, err |-> "none",
           items |-> {}, late |-> FALSE]

\* the server as newWebRTCServer returns it, just before go s.run()
WInit ==
  /\ wpc = "select"
  /\ wctxDone = FALSE
  /\ wdone = FALSE
  /\ ln = "open"
  /\ \E mux \in {"nil", "open"} : udpMuxLn = mux /\ tcpMuxLn = mux
  /\ conns = {}
  /\ reply = NoReply
  /\ conn = [c \in Handlers |-> "none"]
  /\ kicked = {}
  /\ handler = [h \in Handlers |-> [pc |-> "idle", ret |-> 0]]
  /\ caller = NoCall
  /\ wcloser = "idle"

\* no WebRTC server under analysis
WOff ==
  /\ wpc = "off"
  /\ wctxDone = FALSE
  /\ wdone = FALSE
  /\ ln = "closed"
  /\ udpMuxLn = "nil"
  /\ tcpMuxLn = "nil"
  /\ conns = {}
  /\ reply = NoReply
  /\ conn = [c \in Handlers |-> "none"]
  /\ kicked = {}
  /\ handler = [h \in Handlers |-> [pc |-> "idle", ret |-> 0]]
  /\ caller = NoCall
  /\ wcloser = "idle"

\* onRequest reaches s.newConn(dir, wsconn)
NewConnCall(h) ==
  /\ wpc # "off"
  /\ handler[h].pc = "idle"
  /\ handler' = [handler EXCEPT ![h].pc = "select"]
  /\ UNCHANGED <<wpc, wctxDone, wdone, ln, udpMuxLn, tcpMuxLn, conns, reply,
                 conn, kicked, caller, wcloser>>
  /\ UNCHANGED <<coreVars, reqVars, loadVars, ctorVars>>

\* case req := <-s.connNew, with the send in newConn: newWebRTCConn,
\* s.conns[c] = struct{}{}
ConnNewUnregistered(h) ==
  /\ wpc = "select"
  /\ handler[h].pc = "select"
  /\ handler' = [handler EXCEPT ![h].pc = "waitRes"]
  /\ conn' = [conn EXCEPT ![h] = "running"]
  /\ reply' = [kind |-> "conn", to |-> h, err |-> "nil", val |-> {h}]
  /\ wpc' = "reply"
  /\ UNCHANGED <<wctxDone, wdone, ln, udpMuxLn, tcpMuxLn, conns, kicked,
                 caller, wcloser>>
  /\ UNCHANGED <<coreVars, reqVars, loadVars, ctorVars>>

\* a connection actor made for a newConn call the loop no longer selects
ConnNewAfterLoop(h) ==
  /\ wpc \in {"select", "wait"}
  /\ handler[h].pc = "select"
  /\ handler' = [handler EXCEPT ![h].pc = "waitRes"]
  /\ conn' = [conn EXCEPT ![h] = "running"]
  /\ conns' = conns \cup {h}
  /\ reply' = [kind |-> "conn", to |-> h, err |-> "nil", val |-> {h}]
  /\ wpc' = "reply"
  /\ UNCHANGED <<wctxDone, wdone, ln, udpMuxLn, tcpMuxLn, kicked, caller,
                 wcloser>>
  /\ UNCHANGED <<coreVars, reqVars, loadVars, ctorVars>>

ConnNew(h) ==
  /\ wpc = "select"
  /\ handler[h].pc = "select"
  /\ handler' = [handler EXCEPT ![h].pc = "waitRes"]
  /\ conn' = [conn EXCEPT ![h] = "running"]
  /\ conns' = conns \cup {h}
  /\ reply' = [kind |-> "conn", to |-> h, err |-> "nil", val |-> {h}]
  /\ wpc' = "reply"
  /\ UNCHANGED <<wctxDone, wdone, ln, udpMuxLn, tcpMuxLn, kicked, caller,
                 wcloser>>
  /\ UNCHANGED <<coreVars, reqVars, loadVars, ctorVars>>

\* req.res <- c, with return <-req.res in newConn; onRequest goes on to c.wait()
ConnNewReply(h) ==
  /\ wpc = "reply"
  /\ reply.kind = "conn"
  /\ reply.to = h
  /\ handler[h].pc = "waitRes"
  /\ handler' = [handler EXCEPT ![h] = [pc |-> "wait", ret |-> reply.to]]
  /\ reply' = NoReply
  /\ wpc' = "select"
  /\ UNCHANGED <<wctxDone, wdone, ln, udpMuxLn, tcpMuxLn, conns, conn, kicked,
                 caller, wcloser>>
  /\ UNCHANGED <<coreVars, reqVars, loadVars, ctorVars>>

\* newConn: case <-s.ctx.Done(): return nil; onRequest returns
NewConnCancelled(h) ==
  /\ handler[h].pc = "select"
  /\ wctxDone
  /\ handler' = [handler EXCEPT ![h] = [pc |-> "returned", ret |-> 0]]
  /\ UNCHANGED <<wpc, wctxDone, wdone, ln, udpMuxLn, tcpMuxLn, conns, reply,
                 conn, kicked, caller, wcloser>>
  /\ UNCHANGED <<coreVars, reqVars, loadVars, ctorVars>>

\* c.wait() returns when the connection actor has exited; onRequest returns
HandlerReturn(h) ==
  /\ handler[h].pc = "wait"
  /\ conn[handler[h].ret] = "exited"
  /\ handler' = [handler EXCEPT ![h].pc = "returned"]
  /\ UNCHANGED <<wpc, wctxDone, wdone, ln, udpMuxLn, tcpMuxLn, conns, reply,
                 conn, kicked, caller, wcloser>>
  /\ UNCHANGED <<coreVars, reqVars, loadVars, ctorVars>>

\* the connection actor leaves its loop (its context is cancelled, it was
\* closed, or its peer went away) and enters s.connClose(c)
ConnStop(c) ==
  /\ conn[c] = "running"
  /\ conn' = [conn EXCEPT ![c] = "connClose"]
  /\ UNCHANGED <<wpc, wctxDone, wdone, ln, udpMuxLn, tcpMuxLn, conns, reply,
                 kicked, handler, caller, wcloser>>
  /\ UNCHANGED <<coreVars, reqVars, loadVars, ctorVars>>

\* case conn := <-s.chConnClose, with the send in connClose
ConnClose(c) ==
  /\ wpc = "select"
  /\ conn[c] = "connClose"
  /\ conns' = conns \ {c}
  /\ conn' = [conn EXCEPT ![c] = "returned"]
  /\ UNCHANGED <<wpc, wctxDone, wdone, ln, udpMuxLn, tcpMuxLn, reply, kicked,
                 handler, caller, wcloser>>
  /\ UNCHANGED <<coreVars, reqVars, loadVars, ctorVars>>

\* connClose: case <-s.ctx.Done()
ConnCloseCancelledDeletes(c) ==
  /\ conn[c] = "connClose"
  /\ wctxDone
  /\ conn' = [conn EXCEPT ![c] = "returned"]
  /\ conns' = conns \ {c}
  /\ UNCHANGED <<wpc, wctxDone, wdone, ln, udpMuxLn, tcpMuxLn, reply,
                 kicked, handler, caller, wcloser>>
  /\ UNCHANGED <<coreVars, reqVars, loadVars, ctorVars>>

ConnCloseCancelled(c) ==
  /\ conn[c] = "connClose"
  /\ wctxDone
  /\ conn' = [conn EXCEPT ![c] = "returned"]
  /\ UNCHANGED <<wpc, wctxDone, wdone, ln, udpMuxLn, tcpMuxLn, conns, reply,
                 kicked, handler, caller, wcloser>>
  /\ UNCHANGED <<coreVars, reqVars, loadVars, ctorVars>>

\* the connection actor returns (wg.Done)
ConnExit(c) ==
  /\ conn[c] = "returned"
  /\ conn' = [conn EXCEPT ![c] = "exited"]
  /\ UNCHANGED <<wpc, wctxDone, wdone, ln, udpMuxLn, tcpMuxLn, conns, reply,
                 kicked, handler, caller, wcloser>>
  /\ UNCHANGED <<coreVars, reqVars, loadVars, ctorVars>>

\* the API enters s.apiConnsList()
APIConnsListCall ==
  /\ wpc # "off"
  /\ caller.pc = "idle"
  /\ caller' = [NoCall EXCEPT !.pc = "select", !.op = "list",
                              !.late = wctxDone]
  /\ UNCHANGED <<wpc, wctxDone, wdone, ln, udpMuxLn, tcpMuxLn, conns, reply,
                 conn, kicked, handler, wcloser>>
  /\ UNCHANGED <<coreVars, reqVars, loadVars, ctorVars>>

\* case req := <-s.chAPIConnsList, with the send in apiConnsList
APIConnsList ==
  /\ wpc = "select"
  /\ caller.pc = "select"
  /\ caller.op = "list"
  /\ caller' = [caller EXCEPT !.pc = "waitRes"]
  /\ reply' = [kind |-> "list", to |-> 0, err |-> "nil", val |-> conns]
  /\ wpc' = "reply"
  /\ UNCHANGED <<wctxDone, wdone, ln, udpMuxLn, tcpMuxLn, conns, conn, kicked,
                 handler, wcloser>>
  /\ UNCHANGED <<coreVars, reqVars, loadVars, ctorVars>>

\* req.res <- webRTCServerAPIConnsListRes{data: data}, with return <-req.res
APIConnsListReply ==
  /\ wpc = "reply"
  /\ reply.kind = "list"
  /\ caller.pc = "waitRes"
  /\ caller' = [caller EXCEPT !.pc = "idle", !.late = FALSE,
                              !.err = reply.err, !.items = reply.val]
  /\ reply' = NoReply
  /\ wpc' = "select"
  /\ UNCHANGED <<wctxDone, wdone, ln, udpMuxLn, tcpMuxLn, conns, conn, kicked,
                 handler, wcloser>>
  /\ UNCHANGED <<coreVars, reqVars, loadVars, ctorVars>>

\* apiConnsList: case <-s.ctx.Done()
APIConnsListCancelled ==
  /\ caller.pc = "select"
  /\ caller.op = "list"
  /\ wctxDone
  /\ caller' = [caller EXCEPT !.pc = "idle", !.late = FALSE,
                              !.err = "terminated"]
  /\ UNCHANGED <<wpc, wctxDone, wdone, ln, udpMuxLn, tcpMuxLn, conns, reply,
                 conn, kicked, handler, wcloser>>
  /\ UNCHANGED <<coreVars, reqVars, loadVars, ctorVars>>

\* the API enters s.apiConnsKick(id)
APIConnsKickCall(id) ==
  /\ wpc # "off"
  /\ caller.pc = "idle"
  /\ caller' = [NoCall EXCEPT !.pc = "select", !.op = "kick", !.id = id,
                              !.late = wctxDone]
  /\ UNCHANGED <<wpc, wctxDone, wdone, ln, udpMuxLn, tcpMuxLn, conns, reply,
                 conn, kicked, handler, wcloser>>
  /\ UNCHANGED <<coreVars, reqVars, loadVars, ctorVars>>

\* case req := <-s.chAPIConnsKick, with the send in apiConnsKick
APIConnsKickNoReplyWhenMissing ==
  /\ wpc = "select"
  /\ caller.pc = "select"
  /\ caller.op = "kick"
  /\ caller' = [caller EXCEPT !.pc = "waitRes"]
  /\ IF \E c \in conns : c = caller.id
     THEN /\ conns' = conns \ {caller.id}
          /\ kicked' = kicked \cup {caller.id}
          /\ reply' = [kind |-> "kick", to |-> 0, err |-> "nil", val |-> {}]
          /\ wpc' = "reply"
     ELSE UNCHANGED <<conns, kicked, reply, wpc>>
  /\ UNCHANGED <<wctxDone, wdone, ln, udpMuxLn, tcpMuxLn, conn, handler,
                 wcloser>>
  /\ UNCHANGED <<coreVars, reqVars, loadVars, ctorVars>>

APIConnsKickClosesAll ==
  /\ wpc = "select"
  /\ caller.pc = "select"
  /\ caller.op = "kick"
  /\ caller' = [caller EXCEPT !.pc = "waitRes"]
  /\ IF \E c \in conns : c = caller.id
     THEN /\ conns' = {}
          /\ kicked' = kicked \cup conns
          /\ reply' = [kind |-> "kick", to |-> 0, err |-> "nil", val |-> {}]
     ELSE /\ reply' = [kind |-> "kick", to |-> 0, err |-> "not found",
                       val |-> {}]
          /\ UNCHANGED <<conns, kicked>>
  /\ wpc' = "reply"
  /\ UNCHANGED <<wctxDone, wdone, ln, udpMuxLn, tcpMuxLn, conn, handler,
                 wcloser>>
  /\ UNCHANGED <<coreVars, reqVars, loadVars, ctorVars>>

APIConnsKick ==
  /\ wpc = "select"
  /\ caller.pc = "select"
  /\ caller.op = "kick"
  /\ caller' = [caller EXCEPT !.pc = "waitRes"]
  /\ IF \E c \in conns : c = caller.id
     THEN /\ conns' = conns \ {caller.id}
          /\ kicked' = kicked \cup {caller.id}
          /\ reply' = [kind |-> "kick", to |-> 0, err |-> "nil", val |-> {}]
     ELSE /\ reply' = [kind |-> "kick", to |-> 0, err |-> "not found",
                       val |-> {}]
          /\ UNCHANGED <<conns, kicked>>
  /\ wpc' = "reply"
  /\ UNCHANGED <<wctxDone, wdone, ln, udpMuxLn, tcpMuxLn, conn, handler,
                 wcloser>>
  /\ UNCHANGED <<coreVars, reqVars, loadVars, ctorVars>>

\* req.res <- webRTCServerAPIConnsKickRes{...}, with return <-req.res
APIConnsKickReply ==
  /\ wpc = "reply"
  /\ reply.kind = "kick"
  /\ caller.pc = "waitRes"
  /\ caller' = [caller EXCEPT !.pc = "idle", !.late = FALSE,
                              !.err = reply.err]
  /\ reply' = NoReply
  /\ wpc' = "select"
  /\ UNCHANGED <<wctxDone, wdone, ln, udpMuxLn, tcpMuxLn, conns, conn, kicked,
                 handler, wcloser>>
  /\ UNCHANGED <<coreVars, reqVars, loadVars, ctorVars>>

\* apiConnsKick: case <-s.ctx.Done()
APIConnsKickCancelledAnytime ==
  /\ caller.pc = "select"
  /\ caller.op = "kick"
  /\ caller' = [caller EXCEPT !.pc = "idle", !.late = FALSE,
                              !.err = "terminated"]
  /\ UNCHANGED <<wpc, wctxDone, wdone, ln, udpMuxLn, tcpMuxLn, conns, reply,
                 conn, kicked, handler, wcloser>>
  /\ UNCHANGED <<coreVars, reqVars, loadVars, ctorVars>>

APIConnsKickCancelled ==
  /\ caller.pc = "select"
  /\ caller.op = "kick"
  /\ wctxDone
  /\ caller' = [caller EXCEPT !.pc = "idle", !.late = FALSE,
                              !.err = "terminated"]
  /\ UNCHANGED <<wpc, wctxDone, wdone, ln, udpMuxLn, tcpMuxLn, conns, reply,
                 conn, kicked, handler, wcloser>>
  /\ UNCHANGED <<coreVars, reqVars, loadVars, ctorVars>>

\* the context of Core, parent of s.ctx, is cancelled
ParentCancel ==
  /\ wpc # "off"
  /\ ~wctxDone
  /\ wctxDone' = TRUE
  /\ UNCHANGED <<wpc, wdone, ln, udpMuxLn, tcpMuxLn, conns, reply, conn,
                 kicked, handler, caller, wcloser>>
  /\ UNCHANGED <<coreVars, reqVars, loadVars, ctorVars>>

\* webRTCServer.close: s.ctxCancel()
WClose ==
  /\ wpc # "off"
  /\ wcloser = "idle"
  /\ wcloser' = "waiting"
  /\ wctxDone' = TRUE
  /\ UNCHANGED <<wpc, wdone, ln, udpMuxLn, tcpMuxLn, conns, reply, conn,
                 kicked, handler, caller>>
  /\ UNCHANGED <<coreVars, reqVars, loadVars, ctorVars>>

\* webRTCServer.close: <-s.done
WCloseReturn ==
  /\ wcloser = "waiting"
  /\ wdone
  /\ wcloser' = "returned"
  /\ UNCHANGED <<wpc, wctxDone, wdone, ln, udpMuxLn, tcpMuxLn, conns, reply,
                 conn, kicked, handler, caller>>
  /\ UNCHANGED <<coreVars, reqVars, loadVars, ctorVars>>

\* case <-s.ctx.Done(): break outer; s.ctxCancel(); hs.Shutdown; s.ln.Close()
WCtxDone ==
  /\ wpc = "select"
  /\ wctxDone
  /\ ln' = "closed"
  /\ wpc' = "wait"
  /\ UNCHANGED <<wctxDone, wdone, udpMuxLn, tcpMuxLn, conns, reply, conn,
                 kicked, handler, caller, wcloser>>
  /\ UNCHANGED <<coreVars, reqVars, loadVars, ctorVars>>

\* wg.Wait() returns: no connection actor is running
WWaitNoWait ==
  /\ wpc = "wait"
  /\ wpc' = "closeMux"
  /\ UNCHANGED <<wctxDone, wdone, ln, udpMuxLn, tcpMuxLn, conns, reply, conn,
                 kicked, handler, caller, wcloser>>
  /\ UNCHANGED <<coreVars, reqVars, loadVars, ctorVars>>

WWait ==
  /\ wpc = "wait"
  /\ \A c \in Handlers : conn[c] \in {"none", "exited"}
  /\ wpc' = "closeMux"
  /\ UNCHANGED <<wctxDone, wdone, ln, udpMuxLn, tcpMuxLn, conns, reply, conn,
                 kicked, handler, caller, wcloser>>
  /\ UNCHANGED <<coreVars, reqVars, loadVars, ctorVars>>

\* s.udpMuxLn.Close(), s.tcpMuxLn.Close(), then the deferred close(s.done)
WCloseMux ==
  /\ wpc = "closeMux"
  /\ udpMuxLn' = IF udpMuxLn # "nil" THEN "closed" ELSE udpMuxLn
  /\ tcpMuxLn' = IF tcpMuxLn # "nil" THEN "closed" ELSE tcpMuxLn
  /\ wdone' = TRUE
  /\ wpc' = "done"
  /\ UNCHANGED <<wctxDone, ln, conns, reply, conn, kicked, handler, caller,
                 wcloser>>
  /\ UNCHANGED <<coreVars, reqVars, loadVars, ctorVars>>

WNext ==
  \/ \E h \in Handlers : NewConnCall(h)
  \/ \E h \in Handlers : ConnNew(h)
  \/ \E h \in Handlers : ConnNewReply(h)
  \/ \E h \in Handlers : NewConnCancelled(h)
  \/ \E h \in Handlers : HandlerReturn(h)
  \/ \E c \in Handlers : ConnStop(c)
  \/ \E c \in Handlers : ConnClose(c)
  \/ \E c \in Handlers : ConnCloseCancelled(c)
  \/ \E c \in Handlers : ConnExit(c)
  \/ APIConnsListCall
  \/ APIConnsList
  \/ APIConnsListReply
  \/ APIConnsListCancelled
  \/ \E id \in KickIds : APIConnsKickCall(id)
  \/ APIConnsKick
  \/ APIConnsKickReply
  \/ APIConnsKickCancelled
  \/ ParentCancel
  \/ WClose
  \/ WCloseReturn
  \/ WCtxDone
  \/ WWait
  \/ WCloseMux

(***************************************************************************)
(* Part 3: webRTCServer.onRequest and webRTCServer.authenticate.           *)
(***************************************************************************)
\* ctx.Request.Method
Methods == {"GET", "OPTIONS", "POST"}

\* ctx.Request.URL.Path[1:], as its segments between the slashes: "", "cam",
\* "cam/", "cam/ws", "ws", "favicon.ico"
Paths ==
  {<< >>, <<"cam">>, <<"cam", "">>, <<"cam", "ws">>, <<"ws">>,
   <<"favicon.ico">>}

\* the Authorization header of the request
Users == {"", "user", "other"}

Passwords == {"", "pass", "wrong"}

Headers ==
  {[kind |-> "none", user |-> "", pass |-> ""],
   [kind |-> "malformed", user |-> "", pass |-> ""]}
  \cup [kind : {"basic"}, user : Users, pass : Passwords]

\* pathConf.ReadIPs, pathConf.ReadUser, pathConf.ReadPass
PathConfs ==
  [ReadIPs : {"nil", "list"}, ReadUser : {"", "user"},
   ReadPass : {"", "pass"}]

\* s.externalAuthenticationURL
AuthURLs == {"", "url"}

\* a request, with the results of the calls onRequest makes for it:
\* describeErr: pathManager.describe returns an error; externalErr:
\* externalAuth returns an error; inRange: ipEqualOrInRange(ip, pathIPs);
\* upgradeErr: websocket.NewServerConn returns an error
Requests ==
  [method : Methods, path : Paths, header : Headers, describeErr : BOOLEAN,
   pathConf : PathConfs, url : AuthURLs, externalErr : BOOLEAN,
   inRange : BOOLEAN, upgradeErr : BOOLEAN]

\* ctx.Request.BasicAuth()
BasicAuth(h) ==
  IF h.kind = "basic"
  THEN [user |-> h.user, pass |-> h.pass, ok |-> TRUE]
  ELSE [user |-> "", pass |-> "", ok |-> FALSE]

\* webRTCServer.authenticate: "nil", "notCritical" (pathErrAuthNotCritical)
\* or "critical" (pathErrAuthCritical)
authenticateExternalFirst(url, pathConf, h, externalErr, inRange) ==
  LET cred == BasicAuth(h)
  IN IF url # "" /\ externalErr
     THEN IF ~cred.ok THEN "notCritical" ELSE "critical"
     ELSE IF url # ""
     THEN "nil"
     ELSE IF pathConf.ReadIPs # "nil" /\ ~inRange
     THEN "critical"
     ELSE IF pathConf.ReadUser # ""
     THEN IF ~cred.ok THEN "notCritical"
          ELSE IF cred.user # pathConf.ReadUser
                  \/ cred.pass # pathConf.ReadPass
          THEN "critical"
          ELSE "nil"
     ELSE "nil"

authenticate(url, pathConf, h, externalErr, inRange) ==
  LET cred == BasicAuth(h)
  IN IF url # "" /\ externalErr
     THEN IF ~cred.ok THEN "notCritical" ELSE "critical"
     ELSE IF pathConf.ReadIPs # "nil" /\ ~inRange
     THEN "critical"
     ELSE IF pathConf.ReadUser # ""
     THEN IF ~cred.ok THEN "notCritical"
          ELSE IF cred.user # pathConf.ReadUser
                  \/ cred.pass # pathConf.ReadPass
          THEN "critical"
          ELSE "nil"
     ELSE "nil"

\* strings.HasSuffix(pa, "/ws")
HasSuffixWS(pa) == Len(pa) >= 2 /\ pa[Len(pa)] = "ws"

\* dir, fname of onRequest, before and after strings.TrimSuffix(dir, "/")
DirOf(pa) == IF HasSuffixWS(pa) THEN SubSeq(pa, 1, Len(pa) - 1) ELSE pa

FnameOf(pa) == IF HasSuffixWS(pa) THEN "ws" ELSE ""

HasSuffixSlash(dir) == Len(dir) >= 2 /\ dir[Len(dir)] = ""

TrimSuffixSlash(dir) ==
  IF HasSuffixSlash(dir) THEN SubSeq(dir, 1, Len(dir) - 1) ELSE dir

\* nothing written, nothing called
NoResponse ==
  [status |-> 0, location |-> FALSE, challenge |-> FALSE, log |-> "",
   index |-> FALSE, described |-> << >>, auth |-> "none", upgraded |-> FALSE,
   newConn |-> << >>]

\* err != nil after s.authenticate(res.path, ctx)
AuthFailedCriticalOnly(err) == err = "critical"

AuthFailed(err) == err # "nil"

\* webRTCServer.onRequest: the response to the request r
Response(r) ==
  LET dir == DirOf(r.path)
      fname == FnameOf(r.path)
      name == TrimSuffixSlash(dir)
      err == authenticate(r.url, r.pathConf, r.header, r.externalErr,
                          r.inRange)
      described == [NoResponse EXCEPT !.described = name]
  IN CASE r.method = "OPTIONS" -> [NoResponse EXCEPT !.status = 200]
       [] r.method \notin {"GET", "OPTIONS"} -> NoResponse
       [] OTHER ->
          IF r.path = << >> \/ r.path = <<"favicon.ico">> THEN NoResponse
          ELSE IF fname = "" /\ ~HasSuffixSlash(dir)
          THEN [NoResponse EXCEPT !.status = 301, !.location = TRUE]
          ELSE IF r.describeErr
          THEN [described EXCEPT !.status = 404]
          ELSE IF AuthFailed(err) /\ err = "critical"
          THEN [described EXCEPT !.status = 401, !.challenge = TRUE,
                                 !.auth = err,
                                 !.log = "authentication error"]
          ELSE IF AuthFailed(err)
          THEN [described EXCEPT !.status = 401, !.challenge = TRUE,
                                 !.auth = err]
          ELSE IF fname = ""
          THEN [described EXCEPT !.status = 200, !.index = TRUE,
                                 !.auth = err]
          ELSE IF r.upgradeErr
          THEN [described EXCEPT !.auth = err]
          ELSE [described EXCEPT !.auth = err, !.upgraded = TRUE,
                                 !.newConn = name]

\* a request arrives
ReqInit ==
  /\ rpc = "request"
  /\ req \in Requests
  /\ resp = NoResponse

\* no request under analysis
NoRequest ==
  [method |-> "GET", path |-> << >>,
   header |-> [kind |-> "none", user |-> "", pass |-> ""],
   describeErr |-> FALSE,
   pathConf |-> [ReadIPs |-> "nil", ReadUser |-> "", ReadPass |-> ""],
   url |-> "", externalErr |-> FALSE, inRange |-> FALSE,
   upgradeErr |-> FALSE]

ReqOff ==
  /\ rpc = "off"
  /\ req = NoRequest
  /\ resp = NoResponse

\* webRTCServer.onRequest, up to s.newConn(dir, wsconn)
onRequest ==
  /\ rpc = "request"
  /\ rpc' = "responded"
  /\ resp' = Response(req)
  /\ UNCHANGED req
  /\ UNCHANGED <<coreVars, wVars, loadVars, ctorVars>>

(***************************************************************************)
(* Part 4: conf.Load, the loading of the configuration.  The function is   *)
(* known through its tests and through the words of the specification of   *)
(* the configuration file: a document is the tree of its keys.             *)
(***************************************************************************)
\* the keys a document can hold at the top level, next to "paths"
TopKeys == {"logLevel", "invalid"}

\* the parameters of the configuration
KnownTopKeys == {"logLevel", "paths"}

\* the keys the body of a path can hold
PathKeys == {"source", "invalid"}

\* the parameters of a path
KnownPathKeys == {"source"}

PathNames == {"", "cam1", "cam2"}

Sources == {"publisher", "rpiCamera"}

\* the body of a path entry; no body at all is the body without keys
Bodies ==
  {b \in [keys : SUBSET PathKeys, source : Sources] :
     "source" \notin b.keys => b.source = "publisher"}

\* the file at confPath: missing, or a document (top: its top-level keys,
\* hasPaths: it has a paths section, paths: the entries of that section)
Files ==
  {f \in [exists : BOOLEAN, top : SUBSET TopKeys, hasPaths : BOOLEAN,
           paths : UNION {[names -> Bodies] : names \in SUBSET PathNames}] :
     /\ ~f.exists => (f.top = {} /\ ~f.hasPaths)
     /\ ~f.hasPaths => DOMAIN f.paths = {}}

\* the environment: RTSP_PATHS_CAM1_SOURCE is set to rtsp://testing or not
Envs == BOOLEAN

NoLoadError == [kind |-> "none", level |-> "", path |-> "", key |-> ""]

\* "parameter paths, key <path>: non-existent parameter: '<key>'"
NonExistentInPath(f) ==
  UNION {{[kind |-> "nonExistent", level |-> "path", path |-> n, key |-> k] :
            k \in f.paths[n].keys \ KnownPathKeys} : n \in DOMAIN f.paths}

\* the errors for the keys of the document that are not parameters
NonExistentTopOnly(f) ==
  {[kind |-> "nonExistent", level |-> "top", path |-> "", key |-> k] :
     k \in f.top \ KnownTopKeys}

NonExistent(f) == NonExistentTopOnly(f) \cup NonExistentInPath(f)

\* the paths of the loaded configuration: those of the document overlaid by
\* the environment, each with its source (default: publisher)
LoadedPaths(f, ev) ==
  [n \in DOMAIN f.paths \cup (IF ev THEN {"cam1"} ELSE {}) |->
     IF ev /\ n = "cam1" THEN "rtsp://testing"
     ELSE IF "source" \in f.paths[n].keys THEN f.paths[n].source
     ELSE "publisher"]

\* the errors of the checks made on the loaded configuration
Invalid(paths) ==
  {[kind |-> "invalidPathName", level |-> "path", path |-> n, key |-> ""] :
     n \in DOMAIN paths \cap {""}}
  \cup
  {[kind |-> "doubleRPICamera", level |-> "path", path |-> n, key |-> ""] :
     n \in {m \in DOMAIN paths :
              /\ paths[m] = "rpiCamera"
              /\ \E o \in DOMAIN paths \ {m} : paths[o] = "rpiCamera"}}

NoConf == [LogLevel |-> "", Paths |-> << >>]

\* the results conf.Load can return for a file and an environment: the
\* first error, or the configuration and hasFile
LoadResults(f, ev) ==
  LET paths == LoadedPaths(f, ev)
      errs == IF NonExistent(f) # {} THEN NonExistent(f) ELSE Invalid(paths)
  IN IF errs # {}
     THEN {[err |-> e, hasFile |-> FALSE, conf |-> NoConf] : e \in errs}
     ELSE {[err |-> NoLoadError, hasFile |-> f.exists,
            conf |-> [LogLevel |-> IF "logLevel" \in f.top THEN "debug"
                                   ELSE "info",
                      Paths |-> paths]]}

NotLoaded == [err |-> NoLoadError, hasFile |-> FALSE, conf |-> NoConf]

LoadInit ==
  /\ lpc = "load"
  /\ file \in Files
  /\ env \in Envs
  /\ loaded = NotLoaded

\* no load under analysis
MissingFile ==
  [exists |-> FALSE, top |-> {}, hasPaths |-> FALSE, paths |-> << >>]

LoadOff ==
  /\ lpc = "off"
  /\ file = MissingFile
  /\ env = FALSE
  /\ loaded = NotLoaded

\* conf.Load(fpath)
Load ==
  /\ lpc = "load"
  /\ lpc' = "loaded"
  /\ loaded' \in LoadResults(file, env)
  /\ UNCHANGED <<file, env>>
  /\ UNCHANGED <<coreVars, wVars, reqVars, ctorVars>>

(***************************************************************************)
(* Part 5: newWebRTCServer, the constructor of the server.                 *)
(***************************************************************************)
\* iceUDPMuxAddress, iceTCPMuxAddress: empty or an address
MuxAddresses == {"", "addr"}

\* encryption and the mux addresses, and the calls that fail: listenErr:
\* net.Listen("tcp", address); keyPairErr: tls.LoadX509KeyPair; udpErr:
\* net.ListenPacket("udp", iceUDPMuxAddress); tcpErr:
\* net.Listen("tcp", iceTCPMuxAddress)
CtorArgs ==
  [encryption : BOOLEAN, iceUDPMuxAddress : MuxAddresses,
   iceTCPMuxAddress : MuxAddresses, listenErr : BOOLEAN,
   keyPairErr : BOOLEAN, udpErr : BOOLEAN, tcpErr : BOOLEAN]

\* nothing returned yet, no listener opened
NoServer ==
  [err |-> "none", server |-> FALSE, ln |-> "nil", udpMuxLn |-> "nil",
   tcpMuxLn |-> "nil"]

\* newWebRTCServer: the error it returns, whether it returns a server (whose
\* run loop then runs), and the state of the listeners it opened
newWebRTCServer(a) ==
  IF a.listenErr
  THEN [NoServer EXCEPT !.err = "listen"]
  ELSE IF a.encryption /\ a.keyPairErr
  THEN [NoServer EXCEPT !.err = "keyPair", !.ln = "closed"]
  ELSE IF a.iceUDPMuxAddress # "" /\ a.udpErr
  THEN [NoServer EXCEPT !.err = "udpMux", !.ln = "open"]
  ELSE LET udp == IF a.iceUDPMuxAddress # "" THEN "open" ELSE "nil"
       IN IF a.iceTCPMuxAddress # "" /\ a.tcpErr
          THEN [NoServer EXCEPT !.err = "tcpMux", !.ln = "open",
                                !.udpMuxLn = udp]
          ELSE [err |-> "nil", server |-> TRUE, ln |-> "open",
                udpMuxLn |-> udp,
                tcpMuxLn |-> IF a.iceTCPMuxAddress # "" THEN "open"
                             ELSE "nil"]

CtorInit ==
  /\ nwpc = "call"
  /\ nwArgs \in CtorArgs
  /\ nwRes = NoServer

NoCtorArgs ==
  [encryption |-> FALSE, iceUDPMuxAddress |-> "", iceTCPMuxAddress |-> "",
   listenErr |-> FALSE, keyPairErr |-> FALSE, udpErr |-> FALSE,
   tcpErr |-> FALSE]

\* no construction under analysis
CtorOff ==
  /\ nwpc = "off"
  /\ nwArgs = NoCtorArgs
  /\ nwRes = NoServer

\* one call of newWebRTCServer, from net.Listen to its return
NewWebRTCServer ==
  /\ nwpc = "call"
  /\ nwpc' = "returned"
  /\ nwRes' = newWebRTCServer(nwArgs)
  /\ UNCHANGED nwArgs
  /\ UNCHANGED <<coreVars, wVars, reqVars, loadVars>>

(***************************************************************************)
(* The two parts are analysed one at a time: a behaviour is a behaviour of *)
(* Core with no WebRTC server under analysis, or a behaviour of one        *)
(* WebRTC server with Core left aside.                                     *)
(***************************************************************************)
vars == <<coreVars, wVars, reqVars, loadVars, ctorVars>>

\* Core left aside
CoreOff ==
  /\ conf = DefaultConf
  /\ confFound = FALSE
  /\ res = [s \in Resources |-> Nil]
  /\ externalCmdPool = "nil"
  /\ ctxDone = FALSE
  /\ done = FALSE
  /\ pc = "off"
  /\ nextId = 1
  /\ apiCaller = NoAPICall
  /\ closer = "idle"
  /\ changes = 0
  /\ last = NoOp

\* Core alone
InitCore == CoreInit /\ WOff /\ ReqOff /\ LoadOff /\ CtorOff

Spec == InitCore /\ [][CoreNext]_vars

\* one WebRTC server alone
InitW == CoreOff /\ WInit /\ ReqOff /\ LoadOff /\ CtorOff

SpecW == InitW /\ [][WNext]_vars

\* one HTTP request alone
InitReq == CoreOff /\ WOff /\ LoadOff /\ CtorOff /\ ReqInit

SpecReq == InitReq /\ [][onRequest]_vars

\* one call of conf.Load alone
InitLoad == CoreOff /\ WOff /\ ReqOff /\ LoadInit /\ CtorOff

SpecLoad == InitLoad /\ [][Load]_vars

\* one call of newWebRTCServer alone
InitCtor == CoreOff /\ WOff /\ ReqOff /\ LoadOff /\ CtorInit

SpecCtor == InitCtor /\ [][NewWebRTCServer]_vars

\* the start of the program: conf.Load, and Core from the result of a
\* successful conf.Load on
InitStart == InitCore \/ InitLoad

NextStart == CoreNext \/ Load

SpecStart == InitStart /\ [][NextStart]_vars

\* Core, with the scheduling the Go runtime provides: the run loop, in its
\* select with the Done channel of p.ctx closed, leaves the loop, goes on to
\* closeResources and close(p.done); a goroutine blocked on <-p.done
\* proceeds once p.done is closed.
CoreFairness ==
  /\ WF_vars(CtxDone)
  /\ WF_vars(RunClose)
  /\ WF_vars(CloseReturn)

SpecClose == InitCore /\ [][CoreNext]_vars /\ CoreFairness

\* Either part, with the scheduling the Go runtime provides: a goroutine
\* blocked in a select proceeds once the Done channel of its context is
\* closed, and the run loop of the server, having taken a request, goes on to
\* the send on the request's reply channel.
InitLive == InitCore \/ InitW

NextLive == CoreNext \/ WNext

Fairness ==
  /\ WF_vars(APIConfigSetCancelled)
  /\ \A h \in Handlers : WF_vars(NewConnCancelled(h))
  /\ \A h \in Handlers : WF_vars(ConnNewReply(h))
  /\ \A c \in Handlers : WF_vars(ConnCloseCancelled(c))
  /\ WF_vars(APIConnsListCancelled)
  /\ WF_vars(APIConnsListReply)
  /\ WF_vars(APIConnsKickCancelled)
  /\ WF_vars(APIConnsKickReply)

SpecLive == InitLive /\ [][NextLive]_vars /\ Fairness

(***************************************************************************)
(* Properties of Core (checked under Spec).                                *)
(***************************************************************************)
\* the run loop has returned from a reloadConf call; last describes it
Reloaded == last.op = "reload" /\ pc # "panic"

\* the subsystems the reload described by last closed or created
WasClosed(s) == Pos(last.closed, s) # 0

WasCreated(s) == Pos(last.created, s) # 0

\* C1: after a reload, a subsystem whose restart predicate is false for the
\* old and the new tree is the instance it was before the reload: the reload
\* neither closed it nor created it.
C1_UnchangedSubsystemKept ==
  Reloaded =>
    \A s \in Subsystems :
      ~MustClose(s, FALSE, conf, last.oldConf) =>
        /\ res[s].id = last.before[s]
        /\ ~WasClosed(s)
        /\ ~WasCreated(s)

\* a reload restarted some subsystem and left another, running one alone
C1_Witness ==
  /\ Reloaded
  /\ pc = "select"
  /\ \E s, t \in Subsystems :
       /\ ~MustClose(s, FALSE, conf, last.oldConf)
       /\ res[s].id # 0
       /\ res[s].id = last.before[s]
       /\ WasClosed(t)
       /\ WasCreated(t)

\* C2: a reload whose trees differ in Paths only closes and creates nothing
\* and calls pathManager.confReload; confReload is called exactly when the
\* path manager is not restarted and Paths differ, and the path manager then
\* holds the new Paths.
C2_PathsReloadedInPlace ==
  Reloaded =>
    /\ Diff(last.oldConf, conf) = {"Paths"} =>
         /\ last.closed = << >>
         /\ last.created = << >>
         /\ Ids(res) = last.before
         /\ last.pmReload
    /\ last.pmReload <=>
         /\ ~closePathManager(FALSE, conf, last.oldConf)
         /\ ~WasClosed("pathManager")
         /\ last.oldConf["Paths"] # conf["Paths"]
    /\ last.pmReload => res["pathManager"].args["Paths"] = conf["Paths"]

\* a reload changed Paths only, and another one changed Paths along with a
\* field that restarts the path manager
C2_Witness ==
  /\ Reloaded
  /\ Diff(last.oldConf, conf) = {"Paths"}
  /\ last.pmReload
  /\ res["pathManager"].id # 0
  /\ res["pathManager"].id = last.before["pathManager"]
  /\ res["pathManager"].args["Paths"] = conf["Paths"]

C2_WitnessRestart ==
  /\ Reloaded
  /\ "Paths" \in Diff(last.oldConf, conf)
  /\ WasClosed("pathManager")
  /\ ~last.pmReload

\* C3: a reload that restarts the path manager closes every running server
\* and the API, and no running server or API ever holds a path manager other
\* than the one Core holds.
C3_NoStalePathManager ==
  /\ pc # "panic" =>
       \A s \in Servers \cup {"api"} :
         res[s].id # 0 =>
           /\ res["pathManager"].id # 0
           /\ res[s].deps["pathManager"] = res["pathManager"].id
  /\ (Reloaded /\ WasClosed("pathManager")) =>
       \A s \in Servers \cup {"api"} :
         last.before[s] # 0 =>
           /\ WasClosed(s)
           /\ res[s].id # last.before[s]

\* a reload restarted the path manager while servers and the API ran, and
\* they run again
C3_Witness ==
  /\ Reloaded
  /\ pc = "select"
  /\ WasClosed("pathManager")
  /\ res["pathManager"].id # last.before["pathManager"]
  /\ last.before["hlsServer"] # 0
  /\ last.before["api"] # 0
  /\ res["hlsServer"].id # 0
  /\ res["api"].id # 0

\* C4: a reload that changes the Metrics flag or MetricsAddress closes the
\* path manager and every running server, and no running path manager or
\* server ever holds a metrics instance other than the one Core holds.
C4_NoStaleMetrics ==
  /\ pc # "panic" =>
       \A s \in Servers \cup {"pathManager"} :
         res[s].id # 0 => res[s].deps["metrics"] = res["metrics"].id
  /\ (Reloaded /\ Diff(last.oldConf, conf) \cap {"Metrics", "MetricsAddress"}
                    # {}) =>
       \A s \in Servers \cup {"pathManager"} :
         last.before[s] # 0 =>
           /\ WasClosed(s)
           /\ res[s].id # last.before[s]

\* a reload replaced a running metrics instance while servers ran
C4_Witness ==
  /\ Reloaded
  /\ pc = "select"
  /\ last.before["metrics"] # 0
  /\ res["metrics"].id # 0
  /\ res["metrics"].id # last.before["metrics"]
  /\ last.before["webRTCServer"] # 0
  /\ res["webRTCServer"].id # 0
  /\ res["pathManager"].deps["metrics"] = res["metrics"].id

\* C5: for every subsystem and every field its constructor receives, a reload
\* in which the field differs restarts the subsystem (the path manager takes
\* Paths through confReload); after a reload that succeeded every running
\* subsystem holds the values of the current tree.
C5_ConstructorInputsRestart ==
  Reloaded =>
    \A s \in Subsystems :
      /\ \A f \in Inputs(s) :
           (last.oldConf[f] # conf[f] /\ last.before[s] # 0) =>
             \/ WasClosed(s)
             \/ (s = "pathManager" /\ f = "Paths" /\ last.pmReload)
      /\ (~last.err /\ res[s].id # 0) =>
           \A f \in Inputs(s) : res[s].args[f] = conf[f]

\* the same statement without the logger's level; it holds
C5_ExceptLogLevel ==
  Reloaded =>
    \A s \in Subsystems :
      /\ \A f \in Inputs(s) \ {"LogLevel"} :
           (last.oldConf[f] # conf[f] /\ last.before[s] # 0) =>
             \/ WasClosed(s)
             \/ (s = "pathManager" /\ f = "Paths" /\ last.pmReload)
      /\ (~last.err /\ res[s].id # 0) =>
           \A f \in Inputs(s) \ {"LogLevel"} : res[s].args[f] = conf[f]

\* place of a subsystem in the teardown order the dependencies ask for
CloseRank(s) ==
  CASE s = "confWatcher" -> 0
    [] s = "api" -> 1
    [] s \in Servers -> 2
    [] s = "pathManager" -> 3
    [] s \in {"metrics", "pprof"} -> 4
    [] s = "logger" -> 5

\* C6: within one closeResources call the subsystems are closed in the order
\* API, servers, path manager, metrics and pprof, logger.
C6_CloseOrder ==
  pc # "panic" =>
    \A i, j \in DOMAIN last.closed :
      i < j => CloseRank(last.closed[i]) <= CloseRank(last.closed[j])

\* place of a subsystem in the construction order
CreateRank(s) ==
  CASE s = "logger" -> 1
    [] s \in {"metrics", "pprof"} -> 2
    [] s = "pathManager" -> 3
    [] s \in Servers -> 4
    [] s = "api" -> 5
    [] s = "confWatcher" -> 6

\* C7: within one createResources call the subsystems are created in the
\* order logger, metrics and pprof, path manager, servers, API; a server is
\* constructed with an existing path manager and the API with every enabled
\* server.
C7_CreateOrder ==
  pc # "panic" =>
    /\ \A i, j \in DOMAIN last.created :
         i < j => CreateRank(last.created[i]) <= CreateRank(last.created[j])
    /\ \A s \in Servers :
         res[s].id # 0 => res[s].deps["pathManager"] # 0
    /\ (WasCreated("api") /\ res["api"].id # 0) =>
         \A s \in Servers :
           Wanted(s, conf, FALSE, confFound) =>
             /\ res[s].id # 0
             /\ res["api"].deps[s] = res[s].id
             /\ res["api"].deps["pathManager"] = res["pathManager"].id

\* one call created the path manager, a server and the API
C7_Witness ==
  /\ pc = "select"
  /\ WasCreated("pathManager")
  /\ WasCreated("webRTCServer")
  /\ WasCreated("api")
  /\ res["api"].deps["webRTCServer"] = res["webRTCServer"].id
  /\ res["api"].id > res["webRTCServer"].id

\* C8 as stated: after a reload in which a constructor failed the run loop
\* keeps serving and the subsystems the reload left alone keep running.
C8_FailureIsLocal ==
  (last.op = "reload" /\ last.err) =>
    /\ pc = "select"
    /\ ~ctxDone

\* C8: a constructor failure during a reload ends the run loop, which never
\* serves another reload: Core cancels its context and goes on to tear every
\* subsystem down, or crashes when it logs the error with no logger left.
C8_FailureStopsCore ==
  /\ (last.op = "reload" /\ last.err) =>
       /\ pc \in {"closing", "panic"}
       /\ pc = "closing" => (ctxDone /\ res["logger"].id # 0)
  /\ pc = "done" => (ctxDone /\ \A s \in Resources : res[s].id = 0)

\* a constructor failed in a reload that left a running subsystem alone
C8_Witness ==
  /\ last.op = "reload"
  /\ last.err
  /\ pc = "closing"
  /\ \E s \in Subsystems :
       /\ ~WasClosed(s)
       /\ res[s].id # 0
       /\ res[s].id = last.before[s]

\* the teardown that follows it
C8_WitnessDone ==
  /\ pc = "done"
  /\ last.op = "teardown"
  /\ last.closed # << >>
  /\ changes > 0

C9_WitnessFile ==
  /\ Reloaded
  /\ ~last.byAPI
  /\ res["api"].id # 0
  /\ res["api"].id = last.before["api"]
  /\ last.apiReload

(***************************************************************************)
(* Properties of the calls between goroutines (checked under SpecLive).    *)
(***************************************************************************)
\* C10: a goroutine blocked in Core.apiConfigSet, webRTCServer.newConn,
\* connClose, apiConnsList or apiConnsKick returns once the context of the
\* actor it calls is cancelled, and a caller whose request the run loop took
\* receives its reply.
C10_CallsReturn ==
  /\ (apiCaller.pc = "calling" /\ ctxDone /\ pc # "panic")
       ~> (apiCaller.pc = "idle" \/ pc = "panic")
  /\ \A h \in Handlers :
       /\ (handler[h].pc = "select" /\ wctxDone)
            ~> (handler[h].pc \in {"wait", "returned"})
       /\ (handler[h].pc = "waitRes") ~> (handler[h].pc = "wait")
  /\ \A c \in Handlers :
       (conn[c] = "connClose" /\ wctxDone)
         ~> (conn[c] \in {"returned", "exited"})
  /\ (caller.pc = "select" /\ wctxDone) ~> (caller.pc = "idle")
  /\ (caller.pc = "waitRes") ~> (caller.pc = "idle")

\* the run loop of the server is gone while a handler, a connection actor
\* and an API goroutine are blocked in their calls
C10_Witness ==
  /\ wpc \in {"wait", "closeMux", "done"}
  /\ wctxDone
  /\ \E h \in Handlers : handler[h].pc = "select"
  /\ \E c \in Handlers : conn[c] = "connClose"
  /\ caller.pc = "select"

\* the run loop of Core is gone while an API goroutine is in apiConfigSet
C10_WitnessCore ==
  /\ pc = "done"
  /\ ctxDone
  /\ apiCaller.pc = "calling"

(***************************************************************************)
(* Properties of the WebRTC server (checked under SpecW).                  *)
(***************************************************************************)
\* a connection actor created by the server has not returned yet
Alive(c) == conn[c] \in {"running", "connClose", "returned"}

\* C11: the server shuts down in the order cancel context, close the HTTP
\* listener, wait for the connection actors, close the ICE mux listeners:
\* the loop is left only with the context cancelled and the listener closed
\* at once, no mux listener is closed while a connection actor is alive, and
\* done is closed, and close() returns, only after every connection actor has
\* returned and the mux listeners are closed.
C11_ShutdownOrder ==
  /\ ln = "closed" => wctxDone
  /\ wpc \in {"wait", "closeMux", "done"} => (wctxDone /\ ln = "closed")
  /\ (udpMuxLn = "closed" \/ tcpMuxLn = "closed") =>
       \A c \in Handlers : ~Alive(c)
  /\ wpc \in {"closeMux", "done"} => \A c \in Handlers : ~Alive(c)
  /\ wdone =>
       /\ wpc = "done"
       /\ \A c \in Handlers : ~Alive(c)
       /\ ln = "closed"
       /\ udpMuxLn # "open"
       /\ tcpMuxLn # "open"
  /\ ~wdone => (udpMuxLn # "closed" /\ tcpMuxLn # "closed")
  /\ wcloser = "returned" => wdone

\* close() returned from a server with mux listeners that had served a
\* connection
C11_Witness ==
  /\ wcloser = "returned"
  /\ wdone
  /\ udpMuxLn = "closed"
  /\ tcpMuxLn = "closed"
  /\ \E c \in Handlers : conn[c] = "exited"

\* the loop waits for a connection actor with the listener closed and the mux
\* listeners still open
C11_WitnessWaiting ==
  /\ wpc = "wait"
  /\ ln = "closed"
  /\ udpMuxLn = "open"
  /\ \E c \in Handlers : Alive(c)

\* the connections a step creates, those whose connClose call a step ends,
\* and those a step kicks
Created == {c \in Handlers : conn[c] = "none" /\ conn'[c] = "running"}

ConnCloseEnded == {c \in Handlers : conn[c] = "connClose" /\ conn'[c] = "returned"}

Kicked == kicked' \ kicked

\* C12: every connection the server constructs is registered: each step adds
\* to the set exactly the connections it creates and removes from it exactly
\* the connections it kicks and those whose connClose the loop processes (a
\* connClose that ends with the context not cancelled was processed; one that
\* ends with the loop gone was not); the connection newConn returns is in the
\* set, and apiConnsList returns one item for each connection of the set.
C12_ConnsStep ==
  /\ Created \subseteq conns'
  /\ conns' \ conns = Created
  /\ Kicked \subseteq conns
  /\ conns \ conns' \subseteq Kicked \cup ConnCloseEnded
  /\ Kicked \cap conns' = {}
  /\ \A c \in ConnCloseEnded :
       /\ (~wctxDone => c \notin conns')
       /\ (wpc # "select" => conns' = conns)
  /\ \A h \in Handlers :
       (handler[h].pc = "waitRes" /\ handler'[h].pc = "wait") =>
         /\ handler'[h].ret \in conns'
         /\ conn'[handler'[h].ret] # "none"
  /\ (caller.op = "list" /\ caller.pc = "waitRes" /\ caller'.pc = "idle") =>
       /\ caller'.err = "nil"
       /\ caller'.items = conns'

C12_Registered == [][C12_ConnsStep]_vars

\* newConn returned a connection that is registered, apiConnsList returned
\* the set, and another connection was removed by its connClose
C12_Witness ==
  /\ wpc = "select"
  /\ \E h \in Handlers : handler[h].pc = "wait" /\ handler[h].ret \in conns
  /\ caller.op = "list"
  /\ caller.pc = "idle"
  /\ caller.err = "nil"
  /\ caller.items = conns
  /\ conns # {}
  /\ \E c \in Handlers : conn[c] = "returned" /\ c \notin conns /\ c \notin kicked

\* C13: when the loop takes apiConnsKick(id) and no connection of the set has
\* that UUID, the set is unchanged, no connection is closed and the call
\* returns "not found"; when one has it, exactly that connection is removed
\* and closed, the others stay registered and open, and the call returns no
\* error.
C13_KickStep ==
  /\ (caller.op = "kick" /\ caller.pc = "select" /\ caller'.pc = "waitRes") =>
       /\ conn' = conn
       /\ IF caller.id \in conns
          THEN /\ conns' = conns \ {caller.id}
               /\ kicked' = kicked \cup {caller.id}
               /\ reply'.err = "nil"
          ELSE /\ conns' = conns
               /\ kicked' = kicked
               /\ reply'.err = "not found"
  /\ (caller.op = "kick" /\ caller.pc = "waitRes" /\ caller'.pc = "idle") =>
       /\ caller'.err = reply.err
       /\ conns' = conns
       /\ kicked' = kicked

C13_Kick == [][C13_KickStep]_vars

\* a kick removed one of two registered connections and returned no error
C13_Witness ==
  /\ caller.op = "kick"
  /\ caller.pc = "idle"
  /\ caller.err = "nil"
  /\ caller.id \in kicked
  /\ caller.id \notin conns
  /\ \E c \in conns : c \notin kicked /\ conn[c] = "running"

\* a kick of a UUID that is not in the non-empty set returned "not found"
C13_WitnessNotFound ==
  /\ caller.op = "kick"
  /\ caller.pc = "idle"
  /\ caller.err = "not found"
  /\ kicked = {}
  /\ conns # {}

\* the API goroutine returns from its call
CallReturns == caller.pc # "idle" /\ caller'.pc = "idle"

\* C14 as stated: a call of apiConnsList or apiConnsKick made with the context
\* cancelled returns "terminated" with no data, and its steps kick nothing
\* and leave the connection set alone.
C14_LateCallStep ==
  (caller.late /\ caller.pc # "idle" /\ caller' # caller) =>
    /\ conns' = conns
    /\ kicked' = kicked
    /\ CallReturns => (caller'.err = "terminated" /\ caller'.items = {})

C14_LateCallTerminated == [][C14_LateCallStep]_vars

\* C14: a call that returns "terminated" was not taken by the loop: the
\* context is cancelled, the call returns no data, kicks nothing and leaves
\* the set alone; once the loop has left its select for good, every call
\* returns "terminated".  (With the context cancelled and the loop still in
\* its select, the loop may take the request and serve it.)
C14_TerminatedStep ==
  /\ (CallReturns /\ caller'.err = "terminated") =>
       /\ wctxDone
       /\ caller.pc = "select"
       /\ caller'.items = {}
       /\ conns' = conns
       /\ kicked' = kicked
  /\ (caller.pc = "select" /\ caller'.pc # "select"
        /\ wpc \in {"wait", "closeMux", "done"}) =>
       /\ caller'.pc = "idle"
       /\ caller'.err = "terminated"
  /\ (caller.pc = "select" /\ caller'.pc = "waitRes") =>
       wpc = "select"

C14_Terminated == [][C14_TerminatedStep]_vars

\* calls made after the loop had left returned "terminated" while
\* connections were still registered
C14_Witness ==
  /\ wpc \in {"wait", "closeMux", "done"}
  /\ caller.pc = "idle"
  /\ caller.err = "terminated"
  /\ caller.items = {}
  /\ conns # {}

\* a call made with the context cancelled was taken by the loop, which
\* kicked the connection
C14_WitnessServed ==
  /\ caller.late
  /\ caller.pc = "waitRes"
  /\ caller.op = "kick"
  /\ caller.id \in kicked

\* the loop, in its select, receives a message in this step
LoopReceives ==
  /\ wpc = "select"
  /\ \/ \E h \in Handlers :
          handler[h].pc = "select" /\ handler'[h].pc = "waitRes"
     \/ \E c \in Handlers : conn[c] = "connClose" /\ conn'[c] = "returned"
     \/ caller.pc = "select" /\ caller'.pc = "waitRes"

\* C15: the connection set is written and read by the request loop only: it
\* changes, and a list of it is made, only in a step in which the loop
\* receives a message; every step of a handler, a connection actor or an API
\* caller alone (entering a call, leaving it through ctx.Done(), receiving a
\* reply, stopping, returning) leaves the set unchanged.
C15_LoopOnlyStep ==
  /\ conns' # conns => LoopReceives
  /\ (reply' # reply /\ reply'.kind = "list") =>
       (LoopReceives /\ reply'.val = conns)
  /\ wpc # "select" => conns' = conns
  /\ (caller' # caller /\ caller'.pc # "waitRes") => conns' = conns
  /\ \A h \in Handlers :
       (handler'[h] # handler[h] /\ handler'[h].pc # "waitRes") =>
         conns' = conns

C15_LoopOnly == [][C15_LoopOnlyStep]_vars

\* with connections registered and the loop gone, a connection actor left
\* connClose and an API call returned; the set still holds the connections
C15_Witness ==
  /\ wpc \in {"wait", "closeMux", "done"}
  /\ \E c \in conns : conn[c] \in {"returned", "exited"}
  /\ caller.pc = "idle"
  /\ caller.err = "terminated"
  /\ \E h \in Handlers : handler[h].pc = "returned" /\ handler[h].ret = 0

(***************************************************************************)
(* Properties of one HTTP request (checked under SpecReq).                 *)
(***************************************************************************)
\* onRequest called authenticate for the request
Authenticated == rpc = "responded" /\ resp.auth # "none"

\* the request carries Basic credentials
HasCredentials == req.header.kind = "basic"

\* the three checks of the request, each failing or not
ExternalFails == req.url # "" /\ req.externalErr

IPFails == req.pathConf.ReadIPs # "nil" /\ ~req.inRange

UserConfigured == req.pathConf.ReadUser # ""

CredentialsDiffer ==
  \/ req.header.user # req.pathConf.ReadUser
  \/ req.header.pass # req.pathConf.ReadPass

\* C16: authenticate evaluates the external call, the IP allowlist and the
\* read user in this order and returns at the first failure: external
\* failure is not-critical without credentials and critical with them, an IP
\* outside the allowlist is critical whatever the credentials, a configured
\* read user gives not-critical without credentials and critical when user or
\* password differ; everything else succeeds.
C16_AuthenticateOrder ==
  Authenticated =>
    /\ (ExternalFails /\ ~HasCredentials) => resp.auth = "notCritical"
    /\ (ExternalFails /\ HasCredentials) => resp.auth = "critical"
    /\ (~ExternalFails /\ IPFails) => resp.auth = "critical"
    /\ (~ExternalFails /\ ~IPFails /\ UserConfigured /\ ~HasCredentials) =>
         resp.auth = "notCritical"
    /\ (~ExternalFails /\ ~IPFails /\ UserConfigured /\ HasCredentials
          /\ CredentialsDiffer) => resp.auth = "critical"
    /\ (~ExternalFails /\ ~IPFails
          /\ (UserConfigured => (HasCredentials /\ ~CredentialsDiffer))) =>
         resp.auth = "nil"

\* the external call and the IP check pass and the third check rejects a
\* wrong password
C16_Witness ==
  /\ Authenticated
  /\ req.url # ""
  /\ ~req.externalErr
  /\ req.pathConf.ReadIPs # "nil"
  /\ req.inRange
  /\ UserConfigured
  /\ HasCredentials
  /\ req.header.user = req.pathConf.ReadUser
  /\ req.header.pass = "wrong"
  /\ resp.auth = "critical"

\* user and password are both supplied
BothPresent == HasCredentials /\ req.header.user # "" /\ req.header.pass # ""

\* C17: on a path with a read user, where nothing but the credentials is
\* checked, authentication is critical only when user and password are both
\* present and wrong, and not-critical when either one is missing.
C17_PartialCredentials ==
  (Authenticated /\ UserConfigured /\ ~ExternalFails /\ ~IPFails) =>
    /\ resp.auth = "critical" => (BothPresent /\ CredentialsDiffer)
    /\ ~BothPresent => resp.auth = "notCritical"

\* the statement that holds: what decides is the presence of the header
C17_HeaderDecides ==
  (Authenticated /\ UserConfigured /\ ~ExternalFails /\ ~IPFails) =>
    /\ resp.auth = "notCritical" <=> ~HasCredentials
    /\ resp.auth = "critical" <=> (HasCredentials /\ CredentialsDiffer)

\* the request is a GET on a path: its page or its WebSocket
OnPath ==
  /\ req.method = "GET"
  /\ req.path \in {<<"cam", "">>, <<"cam", "ws">>}

\* C18: a connection is asked of the loop, or the index page served, only
\* after describe succeeded and authenticate returned success; a describe
\* error gives 404; an authentication error of either kind gives 401 with a
\* WWW-Authenticate challenge, logged when critical and not logged when
\* not-critical; in the failure cases no connection is asked for.
C18_RequestGate ==
  rpc = "responded" =>
    /\ (resp.newConn # << >> \/ resp.index) =>
         /\ OnPath
         /\ ~req.describeErr
         /\ resp.described = <<"cam">>
         /\ resp.auth = "nil"
         /\ authenticate(req.url, req.pathConf, req.header, req.externalErr,
                         req.inRange) = "nil"
    /\ (OnPath /\ req.describeErr) =>
         /\ resp.status = 404
         /\ resp.auth = "none"
         /\ resp.newConn = << >>
         /\ ~resp.index
    /\ (OnPath /\ ~req.describeErr /\ resp.auth # "nil") =>
         /\ resp.auth \in {"critical", "notCritical"}
         /\ resp.status = 401
         /\ resp.challenge
         /\ resp.log # "" <=> resp.auth = "critical"
         /\ resp.newConn = << >>
         /\ ~resp.index
         /\ ~resp.upgraded
    /\ (OnPath /\ ~req.describeErr /\ resp.auth = "nil") =>
         /\ req.path = <<"cam", "">> => (resp.index /\ resp.status = 200)
         /\ req.path = <<"cam", "ws">> =>
              (resp.newConn = <<"cam">> <=> ~req.upgradeErr)

\* a request without credentials on a protected path got 401 with a
\* challenge and no log line
C18_Witness ==
  /\ rpc = "responded"
  /\ OnPath
  /\ req.path = <<"cam", "ws">>
  /\ ~req.describeErr
  /\ resp.auth = "notCritical"
  /\ resp.status = 401
  /\ resp.challenge
  /\ resp.log = ""
  /\ resp.newConn = << >>

\* a request with the right credentials asked the loop for a connection
C18_WitnessAttach ==
  /\ rpc = "responded"
  /\ UserConfigured
  /\ resp.auth = "nil"
  /\ resp.newConn = <<"cam">>

(***************************************************************************)
(* Properties of the loading of the configuration (checked under           *)
(* SpecStart and SpecLoad).                                                *)
(***************************************************************************)
\* conf.Load returned for a missing file
LoadedWithoutFile == lpc = "loaded" /\ ~file.exists

\* New, called when conf.Load found no file, returns success
NewWithoutFile == pc = "new" /\ ~confFound /\ pc' = "select"

\* a step loads a new tree into Core
ReloadStep == conf' # conf \/ (last' # last /\ last'.op = "reload")

\* C19: a missing configuration file is not fatal.  conf.Load returns no
\* error, hasFile = false and the defaults overlaid by the environment; when
\* New then succeeds, every enabled subsystem runs and there is no
\* configuration watcher; none is created later, and every reload of such a
\* run comes from an API config-set.
C19_MissingFileInv ==
  /\ LoadedWithoutFile =>
       /\ loaded.err = NoLoadError
       /\ ~loaded.hasFile
       /\ loaded.conf.LogLevel = "info"
       /\ DOMAIN loaded.conf.Paths = (IF env THEN {"cam1"} ELSE {})
       /\ env => loaded.conf.Paths["cam1"] = "rtsp://testing"
  /\ (pc # "off" /\ ~confFound) => res["confWatcher"] = Nil

C19_MissingFileStep ==
  /\ NewWithoutFile =>
       /\ \A s \in Subsystems :
            res'[s].id # 0 <=> Wanted(s, conf, TRUE, FALSE)
       /\ res'["pathManager"].id # 0
       /\ ~last'.err
  /\ (~confFound /\ ReloadStep) =>
       /\ last'.op = "reload"
       /\ last'.byAPI
       /\ apiCaller.pc # "idle"

C19_MissingFileIsWarning == []C19_MissingFileInv /\ [][C19_MissingFileStep]_vars

\* Core started without a file, serves, and an API config-set reloaded it
C19_Witness ==
  /\ ~confFound
  /\ pc = "select"
  /\ Reloaded
  /\ last.byAPI
  /\ conf # last.oldConf
  /\ res["confWatcher"] = Nil
  /\ res["pathManager"].id # 0

\* conf.Load built the configuration from the environment alone
C19_WitnessLoad ==
  /\ LoadedWithoutFile
  /\ env
  /\ loaded.err = NoLoadError
  /\ ~loaded.hasFile

\* the document holds a key, at the top or in a path, that is no parameter
HasUnknownKey ==
  \/ \E k \in file.top : k \notin KnownTopKeys
  \/ \E n \in DOMAIN file.paths :
       \E k \in file.paths[n].keys : k \notin KnownPathKeys

\* the error names a key of the document that is no parameter
NamesUnknownKey(e) ==
  /\ e.kind = "nonExistent"
  /\ \/ e.level = "top" /\ e.key \in file.top \ KnownTopKeys
     \/ /\ e.level = "path"
        /\ e.path \in DOMAIN file.paths
        /\ e.key \in file.paths[e.path].keys \ KnownPathKeys

\* C20 as stated: a document with an unknown key at any level is rejected
\* with an error naming the key and without configuration; every document
\* of known keys loads without error.
C20_KnownKeysLoad ==
  (lpc = "loaded" /\ file.exists) =>
    /\ HasUnknownKey => (NamesUnknownKey(loaded.err) /\ loaded.conf = NoConf)
    /\ ~HasUnknownKey => loaded.err = NoLoadError

\* the source of the path n once the environment is applied
SourceOf(n) ==
  IF env /\ n = "cam1" THEN "rtsp://testing"
  ELSE IF "source" \in file.paths[n].keys THEN file.paths[n].source
  ELSE "publisher"

\* the document passes the checks made after the keys: no empty path name,
\* no two paths on the camera
Valid ==
  /\ "" \notin DOMAIN file.paths
  /\ Cardinality({n \in DOMAIN file.paths : SourceOf(n) = "rpiCamera"}) <= 1

\* C20, amended: unknown keys are rejected at any level; a document of
\* known keys loads without error if and only if it passes the remaining
\* checks, as do the empty document, the empty paths section and the path
\* with no body.
C20_UnknownKeysRejected ==
  (lpc = "loaded" /\ file.exists) =>
    /\ HasUnknownKey => (NamesUnknownKey(loaded.err) /\ loaded.conf = NoConf)
    /\ ~HasUnknownKey =>
         /\ loaded.err = NoLoadError <=> Valid
         /\ loaded.err # NoLoadError =>
              /\ loaded.err.kind \in {"invalidPathName", "doubleRPICamera"}
              /\ loaded.conf = NoConf
         /\ loaded.err = NoLoadError => loaded.hasFile
    /\ (\A n \in DOMAIN file.paths : n # "" /\ file.paths[n].keys = {}) =>
         (file.top \subseteq KnownTopKeys => loaded.err = NoLoadError)

\* a key that is no parameter, inside a path entry, was rejected
C20_Witness ==
  /\ lpc = "loaded"
  /\ file.exists
  /\ file.top = {}
  /\ DOMAIN file.paths = {"cam1"}
  /\ file.paths["cam1"].keys = {"invalid"}
  /\ loaded.err = [kind |-> "nonExistent", level |-> "path",
                    path |-> "cam1", key |-> "invalid"]

\* a path with no body loaded
C20_WitnessLoads ==
  /\ lpc = "loaded"
  /\ file.exists
  /\ DOMAIN file.paths = {"cam2"}
  /\ file.paths["cam2"].keys = {}
  /\ loaded.err = NoLoadError
  /\ DOMAIN loaded.conf.Paths \cap {"cam2"} # {}

(***************************************************************************)
(* Properties of the resources of Core, continued (checked under Spec).    *)
(***************************************************************************)
\* Core serves: New or the last reload succeeded
Serving == pc = "select"

\* C21: while Core serves, the server handles the running API was
\* constructed with are Core's current handles of the six servers.
C21_APIHandlesCurrent ==
  (Serving /\ res["api"].id # 0) =>
    \A s \in Servers : res["api"].deps[s] = res[s].id

\* the same holds of every server but the RTMPS server, which closeAPI
\* leaves out
C21_ExceptRTMPS ==
  (Serving /\ res["api"].id # 0) =>
    \A s \in Servers \ {"rtmpsServer"} : res["api"].deps[s] = res[s].id

\* some subsystem other than the logger runs
SubsystemRuns == \E s \in Resources \ {"logger"} : res[s].id # 0

\* C22: p.logger is not nil when Core.Log or logger.Close is invoked (no
\* call dereferences a nil logger), and no subsystem runs while p.logger is
\* nil.
C22_LoggerNonNil ==
  /\ pc # "panic"
  /\ SubsystemRuns => res["logger"].id # 0

\* what holds: the logger is there as long as no constructor has failed
C22_UnlessCreationFailed ==
  ~last.err =>
    /\ pc # "panic"
    /\ SubsystemRuns => res["logger"].id # 0
    /\ pc \in {"select", "closing"} => res["logger"].id # 0

\* the subsystems the configuration enables
Enabled(s) ==
  \/ s \in {"logger", "pathManager"}
  \/ s = "metrics" /\ conf["Metrics"]
  \/ s = "pprof" /\ conf["PPROF"]
  \/ s = "rtspServer" /\ ~conf["RTSPDisable"]
       /\ conf["Encryption"] \in {"no", "optional"}
  \/ s = "rtspsServer" /\ ~conf["RTSPDisable"]
       /\ conf["Encryption"] \in {"strict", "optional"}
  \/ s = "rtmpServer" /\ ~conf["RTMPDisable"]
       /\ conf["RTMPEncryption"] \in {"no", "optional"}
  \/ s = "rtmpsServer" /\ ~conf["RTMPDisable"]
       /\ conf["RTMPEncryption"] \in {"strict", "optional"}
  \/ s = "hlsServer" /\ ~conf["HLSDisable"]
  \/ s = "webRTCServer" /\ ~conf["WebRTCDisable"]
  \/ s = "api" /\ conf["API"]

\* C23: after a successful New and after every successful reload the
\* running subsystems are exactly those the current configuration enables.
C23_RunningIsEnabled ==
  Serving => \A s \in Subsystems : res[s].id # 0 <=> Enabled(s)

\* a reload closed a subsystem that the new configuration disables
C23_Witness ==
  /\ Serving
  /\ Reloaded
  /\ \E s \in Subsystems : WasClosed(s) /\ ~Enabled(s) /\ res[s].id = 0

\* a reload enabled a subsystem that did not run
C23_WitnessEnabled ==
  /\ Serving
  /\ Reloaded
  /\ \E s \in Subsystems :
       WasCreated(s) /\ ~WasClosed(s) /\ last.before[s] = 0 /\ res[s].id # 0

(***************************************************************************)
(* Properties of the end of Core (checked under SpecClose).                *)
(***************************************************************************)
\* the number of times s occurs in the sequence q
Count(q, s) == Cardinality({i \in DOMAIN q : q[i] = s})

\* the run loop goes from its loop to the teardown, or ends the teardown
TeardownStep ==
  /\ (pc = "select" /\ pc' = "closing") => ctxDone'
  /\ (pc = "closing" /\ pc' = "done") =>
       /\ ctxDone
       /\ last'.op = "teardown"
       /\ \A s \in Resources :
            /\ Count(last'.closed, s) = (IF res[s].id # 0 THEN 1 ELSE 0)
            /\ res'[s].id = 0
       /\ done'
  /\ (~done /\ done') => (pc = "closing" /\ pc' = "done")
  /\ (closer # "returned" /\ closer' = "returned") => done

\* when done is closed the context is cancelled and every handle is nil;
\* Close has returned only after that
TornDown ==
  /\ done => (pc = "done" /\ ctxDone /\ \A s \in Resources : res[s].id = 0)
  /\ closer = "returned" => done

\* the run loop has left its loop, or crashed in it
LoopExited ==
  \/ pc \in {"closing", "done"}
  \/ pc = "panic" /\ last.op # "new"

\* C24: whatever makes the run loop exit, Core cancels its context, tears
\* every subsystem down exactly once and then closes done; Close returns
\* only after that, and every call of Close eventually returns.
C24_TeardownAlways ==
  /\ []TornDown
  /\ [][TeardownStep]_vars
  /\ LoopExited ~> done
  /\ (closer = "waiting") ~> (closer = "returned")

\* what holds: the same, unless the run loop crashes on a nil logger
C24_UnlessPanic ==
  /\ []TornDown
  /\ [][TeardownStep]_vars
  /\ (pc = "closing") ~> (done \/ pc = "panic")
  /\ (closer = "waiting") ~> (closer = "returned" \/ pc = "panic")

\* Close returned after the teardown of a running Core
C24_Witness ==
  /\ closer = "returned"
  /\ done
  /\ last.op = "teardown"
  /\ Len(last.closed) > 3

(***************************************************************************)
(* Properties of a failed start (checked under Spec).                      *)
(***************************************************************************)
\* createResources(true) returned an error in New
StartFailed == last.op = "new" /\ last.err

\* New returned (nil, false) with nothing left running
ReturnedClean ==
  /\ pc = "failed"
  /\ ~done
  /\ \A s \in Resources : res[s].id = 0
  /\ externalCmdPool # "open"
  /\ \A i \in DOMAIN last.created : Count(last.closed, last.created[i]) = 1

\* C25: when a constructor fails during startup, New returns (nil, false)
\* without starting the run loop, and everything createResources had created
\* is closed before it returns.
C25_FailedStartIsClean == StartFailed => ReturnedClean

\* what holds: the same for every constructor but the logger's, whose
\* failure leaves closeResources with a nil logger to close
C25_UnlessLoggerFailed ==
  StartFailed =>
    /\ last.created # << >> => ReturnedClean
    /\ last.created = << >> => (pc = "panic" /\ res["logger"].id = 0)

\* the API failed to start after the servers had been created
C25_Witness ==
  /\ StartFailed
  /\ pc = "failed"
  /\ Pos(last.created, "webRTCServer") # 0
  /\ Pos(last.closed, "webRTCServer") # 0

(***************************************************************************)
(* Properties of newWebRTCServer (checked under SpecCtor).                 *)
(***************************************************************************)
\* C26: when newWebRTCServer returns an error, no listener it opened is
\* left open.
C26_AllOrNothing ==
  (nwpc = "returned" /\ nwRes.err # "nil") =>
    /\ ~nwRes.server
    /\ nwRes.ln # "open"
    /\ nwRes.udpMuxLn # "open"
    /\ nwRes.tcpMuxLn # "open"

\* what holds: the HTTP listener is closed when the key pair cannot be
\* loaded, and a returned server holds every listener that was opened
C26_KeyPairOnly ==
  nwpc = "returned" =>
    /\ nwRes.err \in {"listen", "keyPair"} =>
         (nwRes.ln # "open" /\ nwRes.udpMuxLn = "nil" /\ nwRes.tcpMuxLn = "nil")
    /\ nwRes.err = "udpMux" => (nwRes.ln = "open" /\ nwRes.tcpMuxLn = "nil")
    /\ nwRes.err = "tcpMux" =>
         /\ nwRes.ln = "open"
         /\ nwRes.udpMuxLn = "open" <=> nwArgs.iceUDPMuxAddress # ""
    /\ nwRes.server <=> nwRes.err = "nil"

(***************************************************************************)
(* Connection actors and the end of webRTCServer.run (checked under SpecW).*)
(***************************************************************************)
\* run has left its select loop (break outer)
LoopLeft == wpc \in {"wait", "closeMux", "done"}

\* wg.Wait() has returned
WaitOver == wpc \in {"closeMux", "done"}

\* a connection actor is created only by the loop handling connNew for the
\* newConn call it took; a newConn call that leaves its select without the
\* loop returns nil, with the context cancelled and no actor made for it
ActorsFromLoopOnly ==
  /\ \A c \in Handlers :
       (conn[c] = "none" /\ conn'[c] # "none") =>
         /\ wpc = "select" /\ wpc' = "reply"
         /\ handler[c].pc = "select" /\ handler'[c].pc = "waitRes"
         /\ reply'.kind = "conn" /\ reply'.to = c
         /\ conn'[c] = "running"
  /\ \A h \in Handlers :
       (handler[h].pc = "select" /\ handler'[h].pc # "select"
          /\ wpc # "select") =>
         /\ wctxDone
         /\ handler'[h] = [pc |-> "returned", ret |-> 0]
         /\ conn'[h] = "none"
  /\ LoopLeft => (LoopLeft' /\ \A c \in Handlers : conn[c] = "none" => conn'[c] = "none")

\* once wg.Wait() has returned every actor ever created has exited, no
\* newConn call waits for the loop's reply once the loop is left, and a
\* connection returned by newConn is an actor the loop created
WaitCoversActors ==
  /\ WaitOver => \A c \in Handlers : conn[c] \in {"none", "exited"}
  /\ LoopLeft => \A h \in Handlers : handler[h].pc # "waitRes"
  /\ \A h \in Handlers : handler[h].ret # 0 => conn[handler[h].ret] # "none"

\* C27: no connection actor is created after run has left its select loop:
\* actors are created only by the loop while it handles connNew, a newConn
\* call the loop does not take returns nil once the context is cancelled,
\* and the wait at shutdown covers every actor the server ever created.
C27_NoActorAfterLoop ==
  /\ []WaitCoversActors
  /\ [][ActorsFromLoopOnly]_vars

\* the server is done; one newConn call got an actor, which has exited, and
\* another, not taken by the loop, returned nil
C27_Witness ==
  /\ wdone
  /\ \E c \in Handlers : conn[c] = "exited" /\ handler[c].ret = c
  /\ \E h \in Handlers :
       handler[h] = [pc |-> "returned", ret |-> 0] /\ conn[h] = "none"

====
